---- MODULE Spec2Model ----
(***************************************************************************)
(* osm2lanes: the tags -> lanes inference.                                 *)
(*                                                                         *)
(* The sources are revisions of one pipeline:                              *)
(*   rust/osm2lanes/src/transform/tags_to_lanes/mod.rs  tags_to_lanes,     *)
(*       unsupported (the entry point, the precheck, the warnings gate)    *)
(*   rust/osm2lanes/src/transform/tags_to_lanes/bus.rs  the bus pass       *)
(*   rust/osm2lanes/src/transform.rs  non_motorized, the driving lanes,    *)
(*       bicycle, parking, walking, assemble_ltr                           *)
(* One call of tags_to_lanes is one behaviour: the inputs (tags, locale,   *)
(* config) are chosen by Init, and each step of the pipeline is an action. *)
(***************************************************************************)
EXTENDS Integers, Sequences, FiniteSets, TLC

VARIABLES
    tags,           \* the way's tags: a map from the keys present to values
    cfg,            \* driving_side, inferred_sidewalks, error_on_warnings
    pc,             \* the pipeline step about to run
    oneway,         \* the pipeline's oneway flag
    driving_lane,   \* the driving-lane type
    forward_side,   \* lanes from the road centre outwards, forward side
    backward_side,  \* lanes from the road centre outwards, backward side
    warnings,       \* the warnings accumulated by tags_to_lanes
    result,         \* what the call returned (kind "none" while running)
    run,            \* 1: the call on the input tags, 2: the call on the tags
                    \* that lanes_to_tags made of the first call's lanes
    first,          \* the result of the first call, once lanes_to_tags ran
    built_as,       \* the Infer variant the lanes' designated value is built with
    provenance,     \* per lane of the bus pass: its designated value before
                    \* and after the pass, and Infer::map / Infer::some of it
    drawn           \* what draw::lanes did with the returned road

vars == <<tags, cfg, pc, oneway, driving_lane, forward_side, backward_side,
          warnings, result, run, first, built_as, provenance, drawn>>

\* What the steps of tags_to_lanes leave alone.
round_trip == <<run, first, built_as, drawn>>

(***************************************************************************)
(* Bounds of the model.                                                    *)
(***************************************************************************)
\* The lane-count tags range over "0" .. MaxLanes (and unparsable values).
MaxLanes == 3

(***************************************************************************)
(* Tag store: keys, values, get / is / is_any / subset.                    *)
(***************************************************************************)
\* TagKey + "suffix": a colon-separated key path.
Key(base, suffix) == base \o ":" \o suffix

Get(t, k) == IF k \in DOMAIN t THEN <<t[k]>> ELSE <<>>

Has(t, k) == k \in DOMAIN t

Is(t, k, v) == k \in DOMAIN t /\ t[k] = v

IsAny(t, k, vs) == k \in DOMAIN t /\ t[k] \in vs

Subset(t, keys) == [k \in (DOMAIN t) \cap keys |-> t[k]]

\* The key segments a TagKey of the model's tags can end with.
KeySuffixes ==
    {"left", "right", "both", "forward", "backward", "bus", "psv", "lanes"}

\* tags.tree().get(prefix).is_some(): some key is the prefix or lies under it.
TreeHas(t, prefix) ==
    \E k \in DOMAIN t :
        \/ k = prefix
        \/ \E s \in KeySuffixes :
              \/ k = Key(prefix, s)
              \/ \E s2 \in KeySuffixes : k = Key(Key(prefix, s), s2)

(***************************************************************************)
(* str::parse::<usize> on the values the model uses, and usize arithmetic. *)
(***************************************************************************)
Digits == <<"0", "1", "2", "3", "4", "5", "6", "7", "8", "9">>

ParsesUsize(s) == \E i \in 1..Len(Digits) : Digits[i] = s

ParseUsize(s) == (CHOOSE i \in 1..Len(Digits) : Digits[i] = s) - 1

NumStr(n) == Digits[n + 1]

\* tags.get(k).and_then(|num| num.parse::<usize>().ok())
ParsedTag(t, k) ==
    IF Has(t, k) /\ ParsesUsize(t[k]) THEN <<ParseUsize(t[k])>> ELSE <<>>

(* A usize is written as an integer r of small magnitude: r >= 0 is the    *)
(* value r, r < 0 is the wrapped value 2^64 + r.  Wrapping subtraction of  *)
(* two such values is integer subtraction of their representatives; the    *)
(* unsigned order puts every wrapped value above every small one.          *)
USub(a, b) == a - b

ULess(a, b) ==
    IF (a < 0) = (b < 0) THEN a < b ELSE b < 0

UMax(a, b) == IF ULess(a, b) THEN b ELSE a

\* a - b overflows (debug builds panic on it, release builds wrap).
Underflows(a, b) == ULess(a, b)

\* The value does not fit a Vec's capacity: it is a wrapped one.
Wrapped(n) == n < 0

(***************************************************************************)
(* Lanes, warnings, errors, results.                                       *)
(***************************************************************************)
LaneSpec(lane_type, direction) ==
    [lane_type |-> lane_type, direction |-> direction]

Forward(lane_type) == LaneSpec(lane_type, "Forward")

Backward(lane_type) == LaneSpec(lane_type, "Backward")

Both(lane_type) == LaneSpec(lane_type, "Both")

BufferTypes == {"FlexPosts", "Curb", "Planters", "JerseyBarrier", "Stripes"}

\* LaneType::Buffer(BufferType)
Buffer(buffer_type) == "Buffer(" \o buffer_type \o ")"

BufferLaneTypes == {Buffer(b) : b \in BufferTypes}

Warning(kind, description, wtags) ==
    [kind |-> kind, description |-> description, tags |-> wtags]

Error(kind, description) == [kind |-> kind, description |-> description]

NoError == Error("", "")

Running == [kind |-> "none", lanes |-> <<>>, warnings |-> <<>>, error |-> NoError]

Ok(lanes, ws) == [kind |-> "ok", lanes |-> lanes, warnings |-> ws, error |-> NoError]

Err(e) == [kind |-> "err", lanes |-> <<>>, warnings |-> <<>>, error |-> e]

Panic(message) ==
    [kind |-> "panic", lanes |-> <<>>, warnings |-> <<>>,
     error |-> Error("panic", message)]

Reverse(s) == [i \in 1..Len(s) |-> s[Len(s) + 1 - i]]

\* Vec::insert(idx, x), idx counted from 0.
Insert(s, idx, x) == SubSeq(s, 1, idx) \o <<x>> \o SubSeq(s, idx + 1, Len(s))

\* iter::repeat_with(|| x).take(n).collect()
Repeat(x, n) == [i \in 1..n |-> x]

\* iter().position(|x| x.lane_type == lane_type), counted from 0; <<>> if none.
Position(s, lane_type) ==
    IF \E i \in 1..Len(s) : s[i].lane_type = lane_type
    THEN <<(CHOOSE i \in 1..Len(s) :
               /\ s[i].lane_type = lane_type
               /\ \A j \in 1..(i - 1) : s[j].lane_type # lane_type) - 1>>
    ELSE <<>>

(***************************************************************************)
(* assemble_ltr                                                            *)
(***************************************************************************)
\* The right-hand-traffic order under either driving side.
assemble_ltr_right_only(fwd_side, back_side, driving_side) ==
    Reverse(back_side) \o fwd_side

\* Left-hand traffic without the reversal of the forward side.
assemble_ltr_unreversed(fwd_side, back_side, driving_side) ==
    IF driving_side = "Right"
    THEN Reverse(back_side) \o fwd_side
    ELSE fwd_side \o back_side

assemble_ltr(fwd_side, back_side, driving_side) ==
    IF driving_side = "Right"
    THEN Reverse(back_side) \o fwd_side
    ELSE Reverse(fwd_side) \o back_side

(***************************************************************************)
(* unsupported: the precheck of tags_to_lanes.                             *)
(***************************************************************************)
ACCESS_KEYS ==
    {"access", "dog", "ski", "inline_skates", "horse", "vehicle", "bicycle",
     "electric_bicycle", "carriage", "hand_cart", "quadracycle", "trailer",
     "caravan", "motor_vehicle", "motorcycle", "moped", "mofa", "motorcar",
     "motorhome", "tourist_bus", "coach", "goods", "hgv", "hgv_articulated",
     "bdouble", "agricultural", "golf_cart", "atv", "snowmobile", "psv", "bus",
     "taxi", "minibus", "share_taxi", "hov", "car_sharing", "emergency",
     "hazmat", "disabled", "roadtrain", "hgv_caravan", "lhv", "tank"}

\* The warnings after the precheck.
unsupported_warnings(t, ws) ==
    IF \E k \in ACCESS_KEYS : Has(t, k)
    THEN Append(ws, Warning("Unimplemented", "access", Subset(t, ACCESS_KEYS)))
    ELSE ws

\* Whether the precheck returns an error.
unsupported_fails_other_value(t) == Is(t, "oneway", "alternating")

unsupported_fails(t) == Is(t, "oneway", "reversible")

(***************************************************************************)
(* non_motorized: <<>> for a motorized way, else <<result>>.               *)
(***************************************************************************)
NonMotorizedHighways ==
    {"cycleway", "footway", "path", "pedestrian", "steps", "track"}

\* The shoulders pushed whatever the foot tag says.
non_motorized_foot_ignored(t, driving_side) ==
    IF ~IsAny(t, "highway", NonMotorizedHighways) THEN <<>>
    ELSE IF Is(t, "highway", "steps") THEN
        <<Ok(<<Both("Sidewalk")>>,
             <<Warning("LaneSpecWarning",
                       "highway is steps, but lane is only a sidewalk",
                       Subset(t, {"highway"}))>>)>>
    ELSE IF \/ Is(t, "bicycle", "no")
            \/ /\ Is(t, "highway", "footway")
               /\ ~IsAny(t, "bicycle", {"designated", "yes"}) THEN
        <<Ok(<<Both("Sidewalk")>>, <<>>)>>
    ELSE
        LET fwd0 == <<Forward("Biking")>>
            back0 == IF Is(t, "oneway", "yes") THEN <<>>
                     ELSE <<Backward("Biking")>>
            fwd1 == Append(fwd0, Both("Shoulder"))
            back1 == IF back0 # <<>>
                     THEN Append(back0, Both("Shoulder")) ELSE back0
        IN  <<Ok(assemble_ltr(fwd1, back1, driving_side), <<>>)>>

non_motorized(t, driving_side) ==
    IF ~IsAny(t, "highway", NonMotorizedHighways) THEN <<>>
    ELSE IF Is(t, "highway", "steps") THEN
        <<Ok(<<Both("Sidewalk")>>,
             <<Warning("LaneSpecWarning",
                       "highway is steps, but lane is only a sidewalk",
                       Subset(t, {"highway"}))>>)>>
    ELSE IF \/ Is(t, "bicycle", "no")
            \/ /\ Is(t, "highway", "footway")
               /\ ~IsAny(t, "bicycle", {"designated", "yes"}) THEN
        <<Ok(<<Both("Sidewalk")>>, <<>>)>>
    ELSE
        LET fwd0 == <<Forward("Biking")>>
            back0 == IF Is(t, "oneway", "yes") THEN <<>>
                     ELSE <<Backward("Biking")>>
            foot == ~Is(t, "foot", "no")
            fwd1 == IF foot THEN Append(fwd0, Both("Shoulder")) ELSE fwd0
            back1 == IF foot /\ back0 # <<>>
                     THEN Append(back0, Both("Shoulder")) ELSE back0
        IN  <<Ok(assemble_ltr(fwd1, back1, driving_side), <<>>)>>

(***************************************************************************)
(* driving_lane_directions.  build is "debug" (an overflowing subtraction  *)
(* panics) or "release" (it wraps).                                        *)
(***************************************************************************)
\* The backward count without the both_ways lanes taken off.
driving_lane_directions_back_keeps_both_ways(t, is_oneway, build) ==
    LET both_ways == IF ParsedTag(t, "lanes:both_ways") # <<>>
                     THEN ParsedTag(t, "lanes:both_ways")[1] ELSE 0
        lanes_forward == ParsedTag(t, "lanes:forward")
        lanes_backward == ParsedTag(t, "lanes:backward")
        lanes == ParsedTag(t, "lanes")
        fwd_half == IF is_oneway THEN lanes[1] ELSE (lanes[1] + 1) \div 2
        fwd_sub == lanes_forward = <<>> /\ lanes # <<>>
        num_driving_fwd ==
            IF lanes_forward # <<>> THEN lanes_forward[1]
            ELSE IF lanes # <<>> THEN USub(fwd_half, both_ways)
            ELSE 1
        back_sub == lanes_backward = <<>> /\ lanes # <<>>
        base == USub(lanes[1], num_driving_fwd)
        back_half == IF is_oneway THEN base ELSE UMax(base, 1)
        num_driving_back ==
            IF lanes_backward # <<>> THEN lanes_backward[1]
            ELSE IF lanes # <<>> THEN back_half
            ELSE IF is_oneway THEN 0
            ELSE 1
        overflow ==
            \/ fwd_sub /\ Underflows(fwd_half, both_ways)
            \/ back_sub /\ Underflows(lanes[1], num_driving_fwd)
    IN  IF build = "debug" /\ overflow
        THEN [panicked |-> TRUE, fwd |-> 0, back |-> 0]
        ELSE [panicked |-> FALSE, fwd |-> num_driving_fwd,
              back |-> num_driving_back]

driving_lane_directions(t, is_oneway, build) ==
    LET both_ways == IF ParsedTag(t, "lanes:both_ways") # <<>>
                     THEN ParsedTag(t, "lanes:both_ways")[1] ELSE 0
        lanes_forward == ParsedTag(t, "lanes:forward")
        lanes_backward == ParsedTag(t, "lanes:backward")
        lanes == ParsedTag(t, "lanes")
        fwd_half == IF is_oneway THEN lanes[1] ELSE (lanes[1] + 1) \div 2
        fwd_sub == lanes_forward = <<>> /\ lanes # <<>>
        num_driving_fwd ==
            IF lanes_forward # <<>> THEN lanes_forward[1]
            ELSE IF lanes # <<>> THEN USub(fwd_half, both_ways)
            ELSE 1
        back_sub == lanes_backward = <<>> /\ lanes # <<>>
        base == USub(lanes[1], num_driving_fwd)
        back_half == IF is_oneway THEN base ELSE UMax(base, 1)
        num_driving_back ==
            IF lanes_backward # <<>> THEN lanes_backward[1]
            ELSE IF lanes # <<>> THEN USub(back_half, both_ways)
            ELSE IF is_oneway THEN 0
            ELSE 1
        overflow ==
            \/ fwd_sub /\ Underflows(fwd_half, both_ways)
            \/ back_sub /\ Underflows(lanes[1], num_driving_fwd)
            \/ back_sub /\ Underflows(back_half, both_ways)
    IN  IF build = "debug" /\ overflow
        THEN [panicked |-> TRUE, fwd |-> 0, back |-> 0]
        ELSE [panicked |-> FALSE, fwd |-> num_driving_fwd,
              back |-> num_driving_back]


(***************************************************************************)
(* get_lane_specs_ltr_with_warnings: oneway, the driving-lane type, the    *)
(* initial sides and the centre turn lane.                                 *)
(***************************************************************************)
is_oneway(t) ==
    IsAny(t, "oneway", {"yes", "reversible"}) \/ Is(t, "junction", "roundabout")

\* str::starts_with("no") on the values the model gives motor_vehicle:conditional.
NoConditionals == {"no", "no @ (10:00-18:00)"}

StartsWithNo(s) == s \in NoConditionals

\* Construction only with both access=no and highway=construction.
driving_lane_type_both(t) ==
    IF \/ Is(t, "access", "no") /\ (Is(t, "bus", "yes") \/ Is(t, "psv", "yes"))
       \/ /\ Has(t, "motor_vehicle:conditional")
          /\ StartsWithNo(t["motor_vehicle:conditional"])
          /\ Is(t, "bus", "yes")
    THEN "Bus"
    ELSE IF Is(t, "access", "no") /\ Is(t, "highway", "construction")
    THEN "Construction"
    ELSE "Driving"

driving_lane_type(t) ==
    IF \/ Is(t, "access", "no") /\ (Is(t, "bus", "yes") \/ Is(t, "psv", "yes"))
       \/ /\ Has(t, "motor_vehicle:conditional")
          /\ StartsWithNo(t["motor_vehicle:conditional"])
          /\ Is(t, "bus", "yes")
    THEN "Bus"
    ELSE IF Is(t, "access", "no") \/ Is(t, "highway", "construction")
    THEN "Construction"
    ELSE "Driving"

has_centre_turn_lane(t) ==
    Is(t, "lanes:both_ways", "1") \/ Is(t, "centre_turn_lane", "yes")

\* The centre turn lane pushed at the outer end.
initial_forward_push(t, lane_type, num_driving_fwd) ==
    LET fwd == Repeat(Forward(lane_type), num_driving_fwd)
    IN  IF has_centre_turn_lane(t)
        THEN Append(fwd, Both("SharedLeftTurn"))
        ELSE fwd

initial_forward(t, lane_type, num_driving_fwd) ==
    LET fwd == Repeat(Forward(lane_type), num_driving_fwd)
    IN  IF has_centre_turn_lane(t)
        THEN Insert(fwd, 0, Both("SharedLeftTurn"))
        ELSE fwd

initial_backward(lane_type, num_driving_back) ==
    Repeat(Backward(lane_type), num_driving_back)

(***************************************************************************)
(* Infer<T> (mod.rs): a value with its level of inference.                 *)
(***************************************************************************)
InferVariants == {"None", "Default", "Calculated", "Direct"}

InferNone == [variant |-> "None", value |-> ""]

Default(v) == [variant |-> "Default", value |-> v]

Calculated(v) == [variant |-> "Calculated", value |-> v]

Direct(v) == [variant |-> "Direct", value |-> v]

\* The value v under a variant.
InferOf(variant, v) ==
    IF variant = "None" THEN InferNone ELSE [variant |-> variant, value |-> v]

\* Infer::some: <<>> for None, <<v>> for the other variants.
some(x) == IF x.variant = "None" THEN <<>> ELSE <<x.value>>

\* Infer::map, f a function on the values.
map(x, f) ==
    IF x.variant = "None" THEN InferNone
    ELSE IF x.variant = "Default" THEN Default(f[x.value])
    ELSE IF x.variant = "Calculated" THEN Calculated(f[x.value])
    ELSE Direct(f[x.value])

\* A LaneBuilder of the bus pass: the lane with its direction and its
\* designated value as Infer values.
LaneBuilder(lane, variant) ==
    [lane_type |-> lane.lane_type,
     direction |-> Direct(lane.direction),
     designated |-> InferOf(variant, IF lane.lane_type = "Bus" THEN "Bus"
                                     ELSE "Motor")]

LaneBuilders(side, variant) == [i \in 1..Len(side) |-> LaneBuilder(side[i], variant)]

\* The lanes of a side of builders.
BuiltLanes(side) ==
    [i \in 1..Len(side) |-> LaneSpec(side[i].lane_type, some(side[i].direction)[1])]

\* The function given to Infer::map: the name of a designation's lanes.
DesignatedLane == [designated \in {"Motor", "Bus"} |-> designated \o "_lane"]

\* What the bus pass did to the designated value of each lane, and
\* Infer::map and Infer::some of the value it left.
Provenance(before, after) ==
    [i \in 1..Len(before) |->
        [before |-> before[i].designated,
         after |-> after[i].designated,
         mapped |-> map(after[i].designated, DesignatedLane),
         some |-> some(after[i].designated)]]

(***************************************************************************)
(* The bus pass (bus.rs).  Each scheme returns the sides, the warnings,    *)
(* err (<<>> or <<error>>) and whether it panicked.                        *)
(***************************************************************************)
Pass(err, fwd, back, ws) ==
    [err |-> err, panicked |-> FALSE, fwd |-> fwd, back |-> back, warnings |-> ws]

PassPanic(fwd, back, ws) ==
    [err |-> <<>>, panicked |-> TRUE, fwd |-> fwd, back |-> back, warnings |-> ws]

\* The designated value written as a calculated one.
set_bus_calculated(lane) ==
    [lane EXCEPT !.lane_type = "Bus", !.designated = Calculated("Bus")]

\* LaneBuilder::set_bus
set_bus(lane) ==
    [lane EXCEPT !.lane_type = "Bus", !.designated = Direct("Bus")]

SetBusAt(s, i) == [s EXCEPT ![i] = set_bus(s[i])]

NoForward == <<Error("Unsupported", "no forward lanes for busway")>>

NoBackward == <<Error("Unsupported", "no backward lanes for busway")>>

DrivingSideTag(driving_side) == IF driving_side = "Right" THEN "right" ELSE "left"

Opposite(driving_side) == IF driving_side = "Right" THEN "Left" ELSE "Right"

\* oneway as the busway scheme reads it
bus_oneway(t) == Is(t, "oneway", "yes") \/ Is(t, "oneway:bus", "yes")

\* forward_side.last_mut().ok_or_else(..)?.set_bus(locale)?
SetBusLastForward(s) ==
    IF s.fwd = <<>> THEN [s EXCEPT !.err = NoForward]
    ELSE [s EXCEPT !.fwd = SetBusAt(s.fwd, Len(s.fwd))]

\* backward_side.last_mut().ok_or_else(..)?.set_bus(locale)?
SetBusLastBackward(s) ==
    IF s.back = <<>> THEN [s EXCEPT !.err = NoBackward]
    ELSE [s EXCEPT !.back = SetBusAt(s.back, Len(s.back))]

\* forward_side.first_mut().ok_or_else(..)?.set_bus(locale)?
SetBusFirstForward(s) ==
    IF s.fwd = <<>> THEN [s EXCEPT !.err = NoForward]
    ELSE [s EXCEPT !.fwd = SetBusAt(s.fwd, 1)]

\* A step of a pass runs only if no earlier step returned an error.
Then(s, next) == IF s.err # <<>> THEN s ELSE next

Fail(s, kind, description) == [s EXCEPT !.err = <<Error(kind, description)>>]

\* busway=lane
busway_lane(t, s) ==
    IF ~Is(t, "busway", "lane") THEN s
    ELSE IF bus_oneway(t) THEN SetBusLastForward(s)
    ELSE Then(SetBusLastForward(s), SetBusLastBackward(SetBusLastForward(s)))

\* busway=opposite_lane
busway_opposite_lane(t, s) ==
    IF s.err # <<>> \/ ~Is(t, "busway", "opposite_lane") THEN s
    ELSE SetBusLastBackward(s)

\* busway:both=lane
busway_both(t, s) ==
    IF s.err # <<>> \/ ~Is(t, Key("busway", "both"), "lane") THEN s
    ELSE IF s.fwd = <<>> THEN SetBusLastForward(s)
    ELSE IF s.back = <<>> THEN SetBusLastBackward(SetBusLastForward(s))
    ELSE IF bus_oneway(t)
         THEN Fail(SetBusLastBackward(SetBusLastForward(s)),
                   "Ambiguous", "busway:both=lane for oneway roads")
    ELSE SetBusLastBackward(SetBusLastForward(s))

\* busway:FORWARD=lane
busway_forward(t, driving_side, s) ==
    IF s.err # <<>> \/ ~Is(t, Key("busway", DrivingSideTag(driving_side)), "lane")
    THEN s
    ELSE SetBusLastForward(s)

\* busway:BACKWARD=lane
busway_backward(t, driving_side, s) ==
    IF \/ s.err # <<>>
       \/ ~Is(t, Key("busway", DrivingSideTag(Opposite(driving_side))), "lane")
    THEN s
    ELSE IF bus_oneway(t) THEN SetBusFirstForward(s)
    ELSE Fail(s, "Ambiguous", "busway:BACKWARD=lane for bidirectional roads")

busway(t, driving_side, fwd, back, ws) ==
    busway_backward(t, driving_side,
        busway_forward(t, driving_side,
            busway_both(t,
                busway_opposite_lane(t,
                    busway_lane(t, Pass(<<>>, fwd, back, ws))))))

LanesBusKeys ==
    {Key("lanes", m) : m \in {"psv", "bus"}}
    \cup {Key(Key("lanes", m), d) :
            m \in {"psv", "bus"}, d \in {"forward", "backward", "left", "right"}}

lanes_bus(t, fwd, back, ws) ==
    Pass(<<>>, fwd, back,
         Append(ws, Warning("Unimplemented", "", Subset(t, LanesBusKeys))))

\* The values of one lane in a bus:lanes / psv:lanes spec.
BusLaneValues == {"designated", "yes"}

RECURSIVE JoinPipe(_)
JoinPipe(parts) ==
    IF Len(parts) = 1 THEN parts[1]
    ELSE parts[1] \o "|" \o JoinPipe(Tail(parts))

PartSeqs == UNION {[1..n -> BusLaneValues] : n \in 1..(MaxLanes + 1)}

\* str::split('|') on the specs the model uses.
SplitPipe(spec) ==
    IF spec = "" THEN <<"">> ELSE CHOOSE parts \in PartSeqs : JoinPipe(parts) = spec

\* Every position whose part is "designated" becomes a bus lane.
ApplyBusSpec(side, parts, offset) ==
    [i \in 1..Len(side) |->
        IF i - offset \in 1..Len(parts) /\ parts[i - offset] = "designated"
        THEN set_bus(side[i]) ELSE side[i]]

bus_lanes(t, is_oneway_road, fwd, back, ws) ==
    LET fwd_bus_spec ==
            IF Has(t, "bus:lanes:forward") THEN t["bus:lanes:forward"]
            ELSE IF Has(t, "psv:lanes:forward") THEN t["psv:lanes:forward"]
            ELSE IF is_oneway_road THEN
                IF Has(t, "bus:lanes") THEN t["bus:lanes"]
                ELSE IF Has(t, "psv:lanes") THEN t["psv:lanes"]
                ELSE ""
            ELSE ""
        fwd_parts == SplitPipe(fwd_bus_spec)
        offset == IF some(fwd[1].direction) = <<"Both">> THEN 1 ELSE 0
        fwd1 == IF fwd_bus_spec = "" THEN fwd
                ELSE IF Len(fwd_parts) = Len(fwd) - offset
                     THEN ApplyBusSpec(fwd, fwd_parts, offset)
                ELSE fwd
        back_spec ==
            IF Has(t, "bus:lanes:backward") THEN <<t["bus:lanes:backward"]>>
            ELSE Get(t, "psv:lanes:backward")
        back1 == IF back_spec = <<>> THEN back
                 ELSE IF Len(SplitPipe(back_spec[1])) = Len(back)
                      THEN ApplyBusSpec(back, SplitPipe(back_spec[1]), 0)
                 ELSE back
    IN  \* forward_side[0] on an empty forward side is out of bounds
        IF fwd_bus_spec # "" /\ fwd = <<>> THEN PassPanic(fwd, back, ws)
        ELSE Pass(<<>>, fwd1, back1, ws)

bus(t, driving_side, is_oneway_road, fwd, back, ws) ==
    LET has_busway == TreeHas(t, "busway")
        has_lanes_bus == TreeHas(t, "lanes:bus") \/ TreeHas(t, "lanes:psv")
        has_bus_lanes == TreeHas(t, "bus:lanes") \/ TreeHas(t, "psv:lanes")
    IN  IF ~has_busway /\ ~has_lanes_bus /\ ~has_bus_lanes
            THEN Pass(<<>>, fwd, back, ws)
        ELSE IF has_busway /\ ~has_bus_lanes
            THEN busway(t, driving_side, fwd, back, ws)
        ELSE IF ~has_busway /\ has_lanes_bus /\ ~has_bus_lanes
            THEN lanes_bus(t, fwd, back, ws)
        ELSE IF ~has_busway /\ ~has_lanes_bus /\ has_bus_lanes
            THEN bus_lanes(t, is_oneway_road, fwd, back, ws)
        ELSE Pass(<<Error("Unsupported", "more than one bus lanes scheme used")>>,
                  fwd, back, ws)


(***************************************************************************)
(* The bicycle pass (transform.rs).                                        *)
(***************************************************************************)
osm_separation_type(x) ==
    IF x \in {"bollard", "vertical_panel"} THEN <<"FlexPosts">>
    ELSE IF x \in {"kerb", "separation_kerb"} THEN <<"Curb">>
    ELSE IF x \in {"grass_verge", "planter", "tree_row"} THEN <<"Planters">>
    ELSE IF x \in {"guard_rail", "jersey_barrier", "railing"} THEN <<"JerseyBarrier">>
    ELSE IF x = "parking_lane" THEN <<>>
    ELSE IF x \in {"barred_area", "dashed_line", "solid_line"} THEN <<"Stripes">>
    ELSE <<>>

\* Tags::is_cycleway(None)
is_cycleway(t) == IsAny(t, "cycleway", {"lane", "track"})

\* Tags::is_cycleway(Some(side))
is_cycleway_side(t, side) == IsAny(t, Key("cycleway", side), {"lane", "track"})

OppositeForms == {"opposite_lane", "opposite_track"}

BicycleError(description) == <<Error("LaneSpecError", description)>>

\* cycleway=lane|track, unsided
bicycle_unsided(t, is_oneway_road, fwd, back, ws) ==
    IF \/ is_cycleway_side(t, "both")
       \/ is_cycleway_side(t, "right")
       \/ is_cycleway_side(t, "left")
    THEN Pass(BicycleError("cycleway=* not supported with any cycleway:* values"),
              fwd, back, ws)
    ELSE IF is_oneway_road
    THEN Pass(<<>>, Append(fwd, Forward("Biking")), back,
              IF back # <<>>
              THEN Append(ws, Warning("LaneSpecWarning",
                                      "oneway has backwards lanes when adding cycleways",
                                      Subset(t, {"oneway", "cycleway"})))
              ELSE ws)
    ELSE Pass(<<>>, Append(fwd, Forward("Biking")),
              Append(back, Backward("Biking")), ws)

\* cycleway:<side>:oneway=no or oneway:bicycle=no
two_way_cycleway(t, side) ==
    Is(t, Key(Key("cycleway", side), "oneway"), "no") \/ Is(t, "oneway:bicycle", "no")

PushForward(s, lane) == [s EXCEPT !.fwd = Append(s.fwd, lane)]

PushBackward(s, lane) == [s EXCEPT !.back = Append(s.back, lane)]

Warn(s, description, wtags) ==
    [s EXCEPT !.warnings = Append(s.warnings,
                                  Warning("LaneSpecWarning", description, wtags))]

\* cycleway=opposite_lane
cycleway_opposite_lane(t, s) ==
    IF Is(t, "cycleway", "opposite_lane")
    THEN PushBackward(Warn(s, "cycleway=opposite_lane deprecated",
                           Subset(t, {"cycleway"})),
                      Backward("Biking"))
    ELSE s

\* cycleway:FORWARD=*
cycleway_forward(t, fwd_tag, s) ==
    IF is_cycleway_side(t, fwd_tag)
    THEN PushForward(s, IF two_way_cycleway(t, fwd_tag) THEN Both("Biking")
                        ELSE Forward("Biking"))
    ELSE s

\* cycleway:FORWARD=opposite_lane
cycleway_forward_opposite(t, fwd_tag, s) ==
    IF IsAny(t, Key("cycleway", fwd_tag), OppositeForms)
    THEN PushForward(Warn(s, "cycleway:FORWARD=opposite_lane deprecated",
                          Subset(t, {"cycleway"})),
                     Backward("Biking"))
    ELSE s

\* cycleway:BACKWARD=*
cycleway_backward(t, back_tag, is_oneway_road, s) ==
    IF ~is_cycleway_side(t, back_tag) THEN s
    ELSE IF two_way_cycleway(t, back_tag) THEN PushBackward(s, Both("Biking"))
    ELSE IF is_oneway_road
         THEN [s EXCEPT !.fwd = Insert(s.fwd, 0, Forward("Biking"))]
    ELSE PushBackward(s, Backward("Biking"))

\* cycleway:BACKWARD=opposite_lane
cycleway_backward_opposite(t, back_tag, s) ==
    IF IsAny(t, Key("cycleway", back_tag), OppositeForms)
    THEN Fail(s, "LaneSpecError", "cycleway:BACKWARD=opposite_lane unsupported")
    ELSE s

\* the per-side forms
bicycle_sided(t, driving_side, is_oneway_road, fwd, back, ws) ==
    cycleway_backward_opposite(t, DrivingSideTag(Opposite(driving_side)),
        cycleway_backward(t, DrivingSideTag(Opposite(driving_side)), is_oneway_road,
            cycleway_forward_opposite(t, DrivingSideTag(driving_side),
                cycleway_forward(t, DrivingSideTag(driving_side),
                    cycleway_opposite_lane(t, Pass(<<>>, fwd, back, ws))))))

HasLaneType(s, lane_type) == \E i \in 1..Len(s) : s[i].lane_type = lane_type

\* The separation buffers: cycleway:<side>:separation:<side>
SeparationBuffer(t, key) ==
    IF Has(t, key) THEN osm_separation_type(t[key]) ELSE <<>>

\* insert(position-of-the-first-Biking + shift, buffer lane), if both exist
InsertBuffer(side, buffer, shift, direction) ==
    IF buffer # <<>> /\ Position(side, "Biking") # <<>>
    THEN Insert(side, Position(side, "Biking")[1] + shift,
                LaneSpec(Buffer(buffer[1]), direction))
    ELSE side

bicycle_buffers(t, s) ==
    [s EXCEPT
        !.fwd = InsertBuffer(
                    InsertBuffer(s.fwd,
                        SeparationBuffer(t, "cycleway:right:separation:left"),
                        0, "Forward"),
                    SeparationBuffer(t, "cycleway:left:separation:right"),
                    1, "Forward"),
        !.back = InsertBuffer(s.back,
                     SeparationBuffer(t, "cycleway:left:separation:left"),
                     0, "Backward")]

\* The lanes the cycleway tags add.
bicycle_lanes(t, driving_side, is_oneway_road, fwd, back, ws) ==
    IF is_cycleway(t)
        THEN bicycle_unsided(t, is_oneway_road, fwd, back, ws)
    ELSE IF is_cycleway_side(t, "both")
        THEN Pass(<<>>, Append(fwd, Both("Biking")), back, ws)
    ELSE bicycle_sided(t, driving_side, is_oneway_road, fwd, back, ws)

\* The buffers without the left-hand-traffic guard.
bicycle_finish_no_guard(t, driving_side, s) ==
    IF s.err # <<>> THEN s ELSE bicycle_buffers(t, s)

\* The left-hand-traffic guard, then the buffers.
bicycle_finish(t, driving_side, s) ==
    IF s.err # <<>> THEN s
    ELSE IF /\ driving_side = "Left"
            /\ (HasLaneType(s.fwd, "Biking") \/ HasLaneType(s.back, "Biking"))
        THEN Fail(s, "LaneSpecError", "LHT with cycleways not supported")
    ELSE bicycle_buffers(t, s)

bicycle(t, driving_side, is_oneway_road, fwd, back, ws) ==
    bicycle_finish(t, driving_side,
        bicycle_lanes(t, driving_side, is_oneway_road, fwd, back, ws))

(***************************************************************************)
(* The parking pass and the foot and shoulder pass (transform.rs).         *)
(***************************************************************************)
HAS_PARKING == {"parallel", "diagonal", "perpendicular"}

parking(t, fwd, back) ==
    LET parking_lane_fwd == \/ IsAny(t, "parking:lane:right", HAS_PARKING)
                            \/ IsAny(t, "parking:lane:both", HAS_PARKING)
        parking_lane_back == \/ IsAny(t, "parking:lane:left", HAS_PARKING)
                             \/ IsAny(t, "parking:lane:both", HAS_PARKING)
    IN  [fwd |-> IF parking_lane_fwd THEN Append(fwd, Forward("Parking")) ELSE fwd,
         back |-> IF parking_lane_back THEN Append(back, Backward("Parking"))
                  ELSE back]

\* The sidewalks of walking().
sidewalks(t, config, fwd, back) ==
    IF Is(t, "sidewalk", "both")
        THEN [fwd |-> Append(fwd, Both("Sidewalk")),
              back |-> Append(back, Both("Sidewalk"))]
    ELSE IF Is(t, "sidewalk", "separate") /\ config.inferred_sidewalks
        THEN [fwd |-> Append(fwd, Forward("Sidewalk")),
              back |-> IF back # <<>> THEN Append(back, Both("Sidewalk")) ELSE back]
    ELSE IF Is(t, "sidewalk", "right")
        THEN IF config.driving_side = "Right"
             THEN [fwd |-> Append(fwd, Both("Sidewalk")), back |-> back]
             ELSE [fwd |-> fwd, back |-> Append(back, Both("Sidewalk"))]
    ELSE IF Is(t, "sidewalk", "left")
        THEN IF config.driving_side = "Right"
             THEN [fwd |-> fwd, back |-> Append(back, Both("Sidewalk"))]
             ELSE [fwd |-> Append(fwd, Both("Sidewalk")), back |-> back]
    ELSE [fwd |-> fwd, back |-> back]

\* last().map(|spec| spec.lane_type != Sidewalk).unwrap_or(true)
LastIsNotSidewalk(s) == s = <<>> \/ s[Len(s)].lane_type # "Sidewalk"

walking(t, config, fwd, back) ==
    LET s == sidewalks(t, config, fwd, back)
        no_shoulder ==
            \/ IsAny(t, "highway", {"motorway", "motorway_link", "construction"})
            \/ Is(t, "foot", "no")
            \/ Is(t, "access", "no")
            \/ Is(t, "motorroad", "yes")
        need_fwd_shoulder == LastIsNotSidewalk(s.fwd) /\ ~no_shoulder
        need_back_shoulder ==
            LastIsNotSidewalk(s.back) /\ ~no_shoulder /\ ~Is(t, "oneway", "yes")
        shoulders == config.inferred_sidewalks \/ Is(t, "highway", "living_street")
    IN  [fwd |-> IF shoulders /\ need_fwd_shoulder
                 THEN Append(s.fwd, Both("Shoulder")) ELSE s.fwd,
         back |-> IF shoulders /\ need_back_shoulder
                  THEN Append(s.back, Both("Shoulder")) ELSE s.back]


(***************************************************************************)
(* The inputs: tag sets, locale and config.                                *)
(***************************************************************************)
Absent == "(absent)"

Config(driving_side, inferred_sidewalks, error_on_warnings) ==
    [driving_side |-> driving_side, inferred_sidewalks |-> inferred_sidewalks,
     error_on_warnings |-> error_on_warnings]

LaneCounts == {NumStr(n) : n \in 0..MaxLanes}

\* The tags of a list of <<key, value>> pairs, the Absent ones left out.
TagsOf(pairs) ==
    LET present == {i \in 1..Len(pairs) : pairs[i][2] # Absent}
    IN  [k \in {pairs[i][1] : i \in present} |->
            pairs[CHOOSE i \in present : pairs[i][1] = k][2]]

\* The lane-count tags.
CountInputs ==
    {[tags |-> TagsOf(<<
        <<"highway", h>>, <<"oneway", o>>, <<"lanes", l>>, <<"lanes:forward", lf>>,
        <<"lanes:backward", lb>>, <<"lanes:both_ways", bw>> >>),
      cfg |-> Config("Right", TRUE, FALSE)] :
        h \in {"residential", "motorway"},
        o \in {Absent, "yes", "reversible"},
        l \in {Absent, "x"} \cup LaneCounts,
        lf \in {Absent} \cup LaneCounts,
        lb \in {Absent, "0", "1"},
        bw \in {Absent, "1", "2"}}

\* The access tags, the driving-lane type and the non-motorized highways; the
\* mode tags are absent or all present.
AccessInputs ==
    {[tags |-> TagsOf(<<
        <<"highway", h>>, <<"access", a>>, <<"bus", b>>, <<"psv", p>>,
        <<"bicycle", bi>>, <<"motor_vehicle:conditional", mv>>,
        <<"centre_turn_lane", ct>>, <<"busway", m[1]>>, <<"cycleway", m[2]>>,
        <<"parking:lane:both", m[3]>>, <<"sidewalk", m[4]>> >>),
      cfg |-> Config("Right", TRUE, e)] :
        h \in {"residential", "construction", "steps", "footway", "path"},
        a \in {Absent, "no", "yes"},
        b \in {Absent, "yes"},
        p \in {Absent, "yes"},
        bi \in {Absent, "no"},
        mv \in {Absent, "yes", "no @ (10:00-18:00)"},
        ct \in {Absent, "yes"},
        m \in {<<Absent, Absent, Absent, Absent>>,
               <<"lane", "lane", "parallel", "both">>},
        e \in BOOLEAN}

\* The cycleway tags with a centre turn lane.
CyclewayInputs ==
    {[tags |-> TagsOf(<<
        <<"highway", "residential">>, <<"oneway", o>>, <<"centre_turn_lane", ct>>,
        <<"cycleway", cw>>, <<"cycleway:left", cl>>, <<"cycleway:right", cr>>,
        <<"cycleway:both", cb>>, <<"cycleway:left:oneway", clo>>,
        <<"cycleway:right:separation:left", sep[1]>>,
        <<"cycleway:left:separation:left", sep[2]>>,
        <<"cycleway:left:separation:right", sep[3]>> >>),
      cfg |-> Config(d, TRUE, FALSE)] :
        o \in {Absent, "yes"},
        ct \in {Absent, "yes"},
        cw \in {Absent, "lane", "opposite_lane"},
        cl \in {Absent, "lane", "opposite_lane"},
        cr \in {Absent, "track", "opposite_track"},
        cb \in {Absent, "lane"},
        clo \in {Absent, "no"},
        sep \in {<<Absent, Absent, Absent>>, <<"kerb", Absent, Absent>>,
                 <<"kerb", "bollard", "solid_line">>,
                 <<Absent, "bollard", Absent>>,
                 <<Absent, Absent, "parking_lane">>},
        d \in {"Right", "Left"}}

\* The bus tags: which schemes are present.
BusInputs ==
    {[tags |-> TagsOf(<<
        <<"highway", "residential">>, <<"oneway", o>>, <<"busway", bw>>,
        <<"busway:both", bb>>, <<"busway:left", bl>>, <<"lanes:bus", lb[1]>>,
        <<"lanes:psv:forward", lb[2]>>, <<"bus:lanes", bs>>,
        <<"psv:lanes:forward", pf>>, <<"bus:lanes:backward", bk>> >>),
      cfg |-> Config("Right", FALSE, FALSE)] :
        o \in {Absent, "yes"},
        bw \in {Absent, "lane", "opposite_lane"},
        bb \in {Absent, "lane"},
        bl \in {Absent, "lane"},
        lb \in {<<Absent, Absent>>, <<"1", Absent>>, <<Absent, "1">>},
        bs \in {Absent, "designated"},
        pf \in {Absent, "yes"},
        bk \in {Absent, "designated"}}

\* oneway=reversible under every locale and config.
ReversibleInputs ==
    {[tags |-> TagsOf(<<
        <<"highway", h>>, <<"oneway", "reversible">>, <<"access", a>>,
        <<"cycleway", cw>> >>),
      cfg |-> Config(d, s, e)] :
        h \in {"residential", "construction", "steps", "footway"},
        a \in {Absent, "no"},
        cw \in {Absent, "lane"},
        d \in {"Right", "Left"},
        s \in BOOLEAN,
        e \in BOOLEAN}

\* Roundabouts and oneway roads with a busway, sidewalks and parking.
RoundaboutInputs ==
    {[tags |-> TagsOf(<<
        <<"highway", "residential">>, <<"junction", j>>, <<"oneway", o>>,
        <<"busway", bw>>, <<"lanes", l>>, <<"sidewalk", sw>>,
        <<"parking:lane:left", pl>> >>),
      cfg |-> Config(d, s, FALSE)] :
        j \in {Absent, "roundabout"},
        o \in {Absent, "yes"},
        bw \in {Absent, "lane"},
        l \in {Absent, "2"},
        sw \in {Absent, "both", "right"},
        pl \in {Absent, "parallel", "no_parking"},
        d \in {"Right", "Left"},
        s \in BOOLEAN}

\* The bus:lanes / psv:lanes specs against the forward and backward lanes.
BusLanesInputs ==
    {[tags |-> TagsOf(<<
        <<"highway", "residential">>, <<"oneway", o>>, <<"lanes", l>>,
        <<"lanes:forward", lf>>, <<"centre_turn_lane", ct>>,
        <<"bus:lanes", bs>>, <<"psv:lanes", ps>>, <<"bus:lanes:forward", bf>>,
        <<"psv:lanes:forward", pf>>, <<"bus:lanes:backward", bk>>,
        <<"psv:lanes:backward", pk>> >>),
      cfg |-> Config("Right", FALSE, FALSE)] :
        o \in {Absent, "yes"},
        l \in {Absent, "3"},
        lf \in {Absent, "0"},
        ct \in {Absent, "yes"},
        bs \in {Absent, "designated|yes|designated", "yes|designated"},
        ps \in {Absent, "designated"},
        bf \in {Absent, "yes|designated", "designated"},
        pf \in {Absent, "designated|designated"},
        bk \in {Absent, "designated"},
        pk \in {Absent, "yes"}}

\* The non-motorized highways under both driving sides.
NonMotorizedInputs ==
    {[tags |-> TagsOf(<<
        <<"highway", h>>, <<"oneway", o>>, <<"bicycle", bi>>, <<"foot", f>> >>),
      cfg |-> Config(d, TRUE, FALSE)] :
        h \in NonMotorizedHighways \cup {"residential"},
        o \in {Absent, "yes"},
        bi \in {Absent, "no", "yes", "designated"},
        f \in {Absent, "no"},
        d \in {"Right", "Left"}}

\* The bus schemes on lanes whose designated value is built under each
\* Infer variant.
ProvenanceInputs ==
    {[tags |-> TagsOf(<<
        <<"highway", "residential">>, <<"oneway", o>>, <<"lanes", l>>,
        <<"access", a[1]>>, <<"bus", a[2]>>, <<"busway", bw>>,
        <<"bus:lanes:forward", bf>>, <<"psv:lanes:backward", pk>> >>),
      cfg |-> Config("Right", FALSE, FALSE),
      built_as |-> v] :
        o \in {Absent, "yes"},
        l \in {Absent, "2", "3"},
        a \in {<<Absent, Absent>>, <<"no", "yes">>},
        bw \in {Absent, "lane", "opposite_lane"},
        bf \in {Absent, "designated", "yes|designated"},
        pk \in {Absent, "designated"},
        v \in InferVariants}

AllInputs ==
    CountInputs \cup AccessInputs \cup CyclewayInputs \cup BusInputs
    \cup ReversibleInputs \cup RoundaboutInputs \cup BusLanesInputs
    \cup NonMotorizedInputs \cup ProvenanceInputs

\* The Infer variant an input builds the lanes' designated value with.
BuiltAs(in) == IF "built_as" \in DOMAIN in THEN in.built_as ELSE "Default"

(***************************************************************************)
(* lanes_to_tags (transform.rs).                                           *)
(***************************************************************************)
\* iter().take_while(|lane| lane.lane_type != Driving): the leading lanes.
BeforeDriving(lanes) ==
    IF Position(lanes, "Driving") = <<>> THEN lanes
    ELSE SubSeq(lanes, 1, Position(lanes, "Driving")[1])

\* iter().skip_while(|lane| lane.lane_type != Driving)
FromDriving(lanes) ==
    IF Position(lanes, "Driving") = <<>> THEN <<>>
    ELSE SubSeq(lanes, Position(lanes, "Driving")[1] + 1, Len(lanes))

\* find(|lane| lane.lane_type == lane_type): <<>> or <<the first such lane>>
Find(lanes, lane_type) ==
    IF Position(lanes, lane_type) = <<>> THEN <<>>
    ELSE <<lanes[Position(lanes, lane_type)[1] + 1]>>

\* The value of a tag on one side, on the other, on both, or Absent.
SideValue(on_left, on_right, side, value) ==
    IF (side = "left" /\ on_left /\ ~on_right)
       \/ (side = "right" /\ ~on_left /\ on_right)
       \/ (side = "both" /\ on_left /\ on_right)
    THEN value ELSE Absent

\* if let Some(LaneSpec { direction: Direction::Both, .. }) = cycle_lane
IsBothWays(found) == found # <<>> /\ found[1].direction = "Both"

\* The tags of a non-empty list of lanes.
lanes_to_tags_of(lanes) ==
    LET lane_count ==
            Cardinality({i \in 1..Len(lanes) :
                lanes[i].lane_type \in {"Driving", "SharedLeftTurn", "Bus"}})
        all_forward ==
            \A i \in 1..Len(lanes) :
                lanes[i].lane_type = "Driving" => lanes[i].direction = "Forward"
        sidewalk_left == lanes[1].lane_type = "Sidewalk"
        sidewalk_right == lanes[Len(lanes)].lane_type = "Sidewalk"
        parking_left == Find(BeforeDriving(lanes), "Parking") # <<>>
        parking_right == Find(FromDriving(lanes), "Parking") # <<>>
        left_cycle_lane == Find(BeforeDriving(lanes), "Biking")
        right_cycle_lane == Find(BeforeDriving(Reverse(lanes)), "Biking")
        cycle_left == left_cycle_lane # <<>>
        cycle_right == right_cycle_lane # <<>>
        turn == HasLaneType(lanes, "SharedLeftTurn")
    IN  TagsOf(<<
            <<"highway", "yes">>,
            <<"lanes", NumStr(lane_count)>>,
            <<"oneway", IF all_forward THEN "yes" ELSE Absent>>,
            <<"sidewalk", SideValue(sidewalk_left, sidewalk_right, "left", "left")>>,
            <<"sidewalk", SideValue(sidewalk_left, sidewalk_right, "right", "right")>>,
            <<"sidewalk", SideValue(sidewalk_left, sidewalk_right, "both", "both")>>,
            <<"parking:lane:left",
              SideValue(parking_left, parking_right, "left", "parallel")>>,
            <<"parking:lane:right",
              SideValue(parking_left, parking_right, "right", "parallel")>>,
            <<"parking:lane:both",
              SideValue(parking_left, parking_right, "both", "parallel")>>,
            <<"cycleway:left", SideValue(cycle_left, cycle_right, "left", "lane")>>,
            <<"cycleway:right", SideValue(cycle_left, cycle_right, "right", "lane")>>,
            <<"cycleway:both", SideValue(cycle_left, cycle_right, "both", "lane")>>,
            <<"cycleway:left:oneway",
              IF IsBothWays(left_cycle_lane) THEN "no" ELSE Absent>>,
            <<"cycleway:right:oneway",
              IF IsBothWays(right_cycle_lane) THEN "no" ELSE Absent>>,
            <<"lanes:both_ways", IF turn THEN "1" ELSE Absent>>,
            <<"turn:lanes:both_ways", IF turn THEN "left" ELSE Absent>> >>)

\* lanes.first().unwrap() on an empty list aborts.
lanes_to_tags(lanes) ==
    IF lanes = <<>> THEN [panicked |-> TRUE, tags |-> <<>>]
    ELSE [panicked |-> FALSE, tags |-> lanes_to_tags_of(lanes)]

(***************************************************************************)
(* draw::lanes, draw_arrow and draw_point (osm2lanes-web/src/draw.rs).     *)
(***************************************************************************)
\* The lane types that are Lane::Travel lanes of the road.
TravelLaneTypes ==
    {"Driving", "Bus", "Biking", "Sidewalk", "SharedLeftTurn", "Construction"}

\* The direction of a Travel lane, <<>> for none: a foot lane has one or not.
TravelDirection(lane, foot_directed) ==
    IF lane.lane_type = "Sidewalk" /\ ~foot_directed THEN <<>>
    ELSE <<lane.direction>>

\* The directions draw_arrow is called with: twice for every Travel lane
\* that has a direction, in the order of the lanes.
RECURSIVE Arrows(_, _)
Arrows(road_lanes, foot_directed) ==
    IF road_lanes = <<>> THEN <<>>
    ELSE LET lane == Head(road_lanes)
             direction == TravelDirection(lane, foot_directed)
         IN  (IF lane.lane_type \in TravelLaneTypes /\ direction # <<>>
              THEN <<direction[1], direction[1]>> ELSE <<>>)
             \o Arrows(Tail(road_lanes), foot_directed)

\* draw_point: the sign of the arrow head, or the unreachable!() arm.
draw_point(direction) ==
    IF direction = "Forward" THEN [panicked |-> FALSE, dir_sign |-> -1]
    ELSE IF direction = "Backward" THEN [panicked |-> FALSE, dir_sign |-> 1]
    ELSE [panicked |-> TRUE, dir_sign |-> 0]

\* Both passed on to draw_point as it is.
draw_arrow_passes_direction(direction) == <<direction>>

\* draw_arrow: the directions it calls draw_point with.
draw_arrow(direction) ==
    IF direction \in {"Forward", "Backward"} THEN <<direction>>
    ELSE <<"Forward", "Backward">>

\* The calls of draw_point that the arrows make, in order.
RECURSIVE Points(_)
Points(arrows) ==
    IF arrows = <<>> THEN <<>>
    ELSE draw_arrow(Head(arrows)) \o Points(Tail(arrows))

\* The calls up to the first one that aborts.
UntilPanic(points) ==
    IF \E i \in 1..Len(points) : draw_point(points[i]).panicked
    THEN SubSeq(points, 1, CHOOSE i \in 1..Len(points) :
                    /\ draw_point(points[i]).panicked
                    /\ \A j \in 1..(i - 1) : ~draw_point(points[j]).panicked)
    ELSE points

NotDrawn == [kind |-> "none", arrows |-> <<>>, points |-> <<>>]

\* draw::lanes: the arrows drawn, the draw_point calls made, and whether one
\* of them reached unreachable!().
draw_lanes(road_lanes, foot_directed) ==
    LET arrows == Arrows(road_lanes, foot_directed)
        points == UntilPanic(Points(arrows))
    IN  [kind |-> IF \E i \in 1..Len(points) : draw_point(points[i]).panicked
                  THEN "panic" ELSE "ok",
         arrows |-> arrows,
         points |-> points]

(***************************************************************************)
(* tags_to_lanes, one action per step of the pipeline.                     *)
(***************************************************************************)
Init ==
    /\ \E in \in AllInputs :
          tags = in.tags /\ cfg = in.cfg /\ built_as = BuiltAs(in)
    /\ pc = "unsupported"
    /\ oneway = FALSE
    /\ driving_lane = "none"
    /\ forward_side = <<>>
    /\ backward_side = <<>>
    /\ warnings = <<>>
    /\ result = Running
    /\ run = 1
    /\ first = Running
    /\ provenance = <<>>
    /\ drawn = NotDrawn

\* The call returns r.
Return(r) == pc' = "done" /\ result' = r

\* unsupported(tags, locale, &mut warnings)?
Unsupported ==
    /\ pc = "unsupported"
    /\ warnings' = unsupported_warnings(tags, warnings)
    /\ IF unsupported_fails(tags)
       THEN Return(Err(Error("Unimplemented", "oneway=reversible")))
       ELSE pc' = "non_motorized" /\ result' = result
    /\ UNCHANGED <<tags, cfg, oneway, driving_lane, forward_side, backward_side>>
    /\ UNCHANGED <<round_trip, provenance>>

\* if let Some(spec) = non_motorized(..)? { return Ok(spec) }
NonMotorized ==
    /\ pc = "non_motorized"
    /\ LET spec == non_motorized(tags, cfg.driving_side)
       IN  IF spec # <<>>
           THEN Return(spec[1])
           ELSE pc' = "driving" /\ result' = result
    /\ UNCHANGED <<tags, cfg, oneway, driving_lane, forward_side, backward_side,
                   warnings>>
    /\ UNCHANGED <<round_trip, provenance>>

Builds == {"debug", "release"}

\* Construction lanes go through the mode passes like any other.
after_driving_lanes_no_skip(lane_type) == "bus"

\* if driving_lane == LaneType::Construction { return .. }, else the bus pass
after_driving_lanes(lane_type) ==
    IF lane_type = "Construction" THEN "construction" ELSE "bus"

\* oneway, the driving-lane counts and type, the two sides, the centre turn lane
DrivingLanes ==
    /\ pc = "driving"
    /\ \E build \in Builds :
        LET ow == is_oneway(tags)
            counts == driving_lane_directions(tags, ow, build)
            lane_type == driving_lane_type(tags)
        IN  IF counts.panicked
            THEN /\ Return(Panic("attempt to subtract with overflow"))
                 /\ UNCHANGED <<oneway, driving_lane, forward_side, backward_side>>
            ELSE IF Wrapped(counts.fwd) \/ Wrapped(counts.back)
            THEN /\ Return(Panic("capacity overflow"))
                 /\ UNCHANGED <<oneway, driving_lane, forward_side, backward_side>>
            ELSE /\ oneway' = ow
                 /\ driving_lane' = lane_type
                 /\ forward_side' = initial_forward(tags, lane_type, counts.fwd)
                 /\ backward_side' = initial_backward(lane_type, counts.back)
                 /\ pc' = after_driving_lanes(lane_type)
                 /\ result' = result
    /\ UNCHANGED <<tags, cfg, warnings>>
    /\ UNCHANGED <<round_trip, provenance>>

\* if driving_lane == LaneType::Construction { return Ok(..) }
Construction ==
    /\ pc = "construction"
    /\ Return(Ok(assemble_ltr(forward_side, backward_side, cfg.driving_side), <<>>))
    /\ UNCHANGED <<tags, cfg, oneway, driving_lane, forward_side, backward_side,
                   warnings>>
    /\ UNCHANGED <<round_trip, provenance>>

\* A mode pass ended in p: its error or panic ends the call, else go to next.
EndPass(p, next) ==
    /\ forward_side' = p.fwd
    /\ backward_side' = p.back
    /\ warnings' = p.warnings
    /\ IF p.panicked THEN Return(Panic("index out of bounds"))
       ELSE IF p.err # <<>> THEN Return(Err(p.err[1]))
       ELSE pc' = next /\ result' = result

\* A pass on LaneBuilders as a pass on their lanes.
BuiltPass(p) == [p EXCEPT !.fwd = BuiltLanes(p.fwd), !.back = BuiltLanes(p.back)]

Bus ==
    /\ pc = "bus"
    /\ \E fwd \in {LaneBuilders(forward_side, built_as)},
          back \in {LaneBuilders(backward_side, built_as)} :
          \E p \in {bus(tags, cfg.driving_side, oneway, fwd, back, warnings)} :
              /\ EndPass(BuiltPass(p), "bicycle")
              /\ provenance' = Provenance(fwd \o back, p.fwd \o p.back)
    /\ UNCHANGED <<tags, cfg, oneway, driving_lane>>
    /\ UNCHANGED round_trip

Bicycle ==
    /\ pc = "bicycle"
    /\ EndPass(bicycle(tags, cfg.driving_side, oneway, forward_side, backward_side,
                       warnings), "parking")
    /\ UNCHANGED <<tags, cfg, oneway, driving_lane>>
    /\ UNCHANGED <<round_trip, provenance>>

\* if driving_lane == LaneType::Driving { parking(..) }
Parking ==
    /\ pc = "parking"
    /\ LET p == IF driving_lane = "Driving"
                THEN parking(tags, forward_side, backward_side)
                ELSE [fwd |-> forward_side, back |-> backward_side]
       IN  forward_side' = p.fwd /\ backward_side' = p.back
    /\ pc' = "walking"
    /\ UNCHANGED <<tags, cfg, oneway, driving_lane, warnings, result>>
    /\ UNCHANGED <<round_trip, provenance>>

Walking ==
    /\ pc = "walking"
    /\ LET p == walking(tags, cfg, forward_side, backward_side)
       IN  forward_side' = p.fwd /\ backward_side' = p.back
    /\ pc' = "assemble"
    /\ UNCHANGED <<tags, cfg, oneway, driving_lane, warnings, result>>
    /\ UNCHANGED <<round_trip, provenance>>

\* The result of tags_to_lanes after the passes: the error_on_warnings gate.
gate(config, lanes, ws) ==
    IF config.error_on_warnings /\ ws # <<>>
    THEN Err(Error("Warnings", "warnings treated as errors"))
    ELSE Ok(lanes, ws)

Assemble ==
    /\ pc = "assemble"
    /\ Return(gate(cfg, assemble_ltr(forward_side, backward_side, cfg.driving_side),
                   warnings))
    /\ UNCHANGED <<tags, cfg, oneway, driving_lane, forward_side, backward_side,
                   warnings>>
    /\ UNCHANGED <<round_trip, provenance>>

\* lanes_to_tags on the lanes of a first call that returned no warning, then
\* tags_to_lanes again on the tags it made (same locale and config).
LanesToTags ==
    /\ pc = "done" /\ run = 1
    /\ result.kind = "ok" /\ result.warnings = <<>>
    /\ drawn = NotDrawn
    /\ run' = 2
    /\ first' = result
    /\ provenance' = <<>>
    /\ LET made == lanes_to_tags(result.lanes)
       IN  IF made.panicked
           THEN /\ pc' = "done"
                /\ result' = Panic("called Option::unwrap() on a None value")
                /\ UNCHANGED <<tags, oneway, driving_lane, forward_side,
                               backward_side, warnings>>
           ELSE /\ tags' = made.tags
                /\ pc' = "unsupported"
                /\ oneway' = FALSE
                /\ driving_lane' = "none"
                /\ forward_side' = <<>>
                /\ backward_side' = <<>>
                /\ warnings' = <<>>
                /\ result' = Running
    /\ UNCHANGED <<cfg, built_as, drawn>>

\* draw::lanes on the road a call returned.
Draw ==
    /\ pc = "done"
    /\ result.kind = "ok"
    /\ drawn = NotDrawn
    /\ \E foot_directed \in BOOLEAN :
          drawn' = draw_lanes(result.lanes, foot_directed)
    /\ UNCHANGED <<tags, cfg, pc, oneway, driving_lane, forward_side,
                   backward_side, warnings, result, run, first, built_as,
                   provenance>>

Next ==
    \/ Unsupported
    \/ NonMotorized
    \/ DrivingLanes
    \/ Construction
    \/ Bus
    \/ Bicycle
    \/ Parking
    \/ Walking
    \/ Assemble
    \/ LanesToTags
    \/ Draw

Spec == Init /\ [][Next]_vars

TypeOK ==
    /\ pc \in {"unsupported", "non_motorized", "driving", "construction", "bus",
               "bicycle", "parking", "walking", "assemble", "done"}
    /\ result.kind \in {"none", "ok", "err", "panic"}
    /\ (pc = "done") = (result.kind # "none")
    /\ drawn # NotDrawn => (pc = "done" /\ result.kind = "ok")
    /\ run \in {1, 2}
    /\ (run = 1) = (first = Running)
    /\ built_as \in InferVariants

(***************************************************************************)
(* The claims.                                                             *)
(***************************************************************************)
Succeeded == pc = "done" /\ result.kind = "ok"

\* C1: whenever the inference returns success, the returned left-to-right
\* lane list holds at least one lane.
C1_NonEmptyLanes == Succeeded => result.lanes # <<>>

\* C2: with config.error_on_warnings set, the call never returns Ok together
\* with a non-empty warning list, on any path through the pipeline.
C2_ErrorOnWarnings ==
    (Succeeded /\ cfg.error_on_warnings) => result.warnings = <<>>

\* C3: with oneway=reversible in the tags the call fails with the
\* Unimplemented error for oneway=reversible and returns no road, whatever
\* the other tags, the locale and the config; no step after the precheck runs.
C3_ReversibleFails ==
    Is(tags, "oneway", "reversible") =>
        /\ pc \in {"unsupported", "done"}
        /\ forward_side = <<>> /\ backward_side = <<>>
        /\ pc = "done" =>
              /\ result.kind = "err"
              /\ result.error = Error("Unimplemented", "oneway=reversible")
              /\ result.lanes = <<>>

\* C3 witness: a call on tags with oneway=reversible and other tags has ended
\* in the error.
C3_Witness ==
    /\ Is(tags, "oneway", "reversible")
    /\ Has(tags, "access") /\ Has(tags, "cycleway")
    /\ cfg.driving_side = "Left" /\ cfg.error_on_warnings
    /\ pc = "done"
    /\ result.kind = "err"

\* The 'access' Unimplemented warnings of a warning list.
AccessWarnings(ws) ==
    {i \in 1..Len(ws) : ws[i].kind = "Unimplemented" /\ ws[i].description = "access"}

\* C4: on success, if an access key is in the tags the returned warnings hold
\* exactly one 'access' Unimplemented warning, whose tags are the input tags
\* restricted to the access keys; with no access key there is none.  On the
\* non-motorized fast path as on the motorized path.
C4_AccessWarning ==
    Succeeded =>
        IF \E k \in ACCESS_KEYS : k \in DOMAIN tags
        THEN /\ Cardinality(AccessWarnings(result.warnings)) = 1
             /\ \A i \in AccessWarnings(result.warnings) :
                    /\ DOMAIN result.warnings[i].tags = ACCESS_KEYS \cap DOMAIN tags
                    /\ \A k \in DOMAIN result.warnings[i].tags :
                           result.warnings[i].tags[k] = tags[k]
        ELSE AccessWarnings(result.warnings) = {}

\* The call got past the precheck and the non-motorized fast path.
Motorized ==
    ~Is(tags, "oneway", "reversible")
    /\ ~("highway" \in DOMAIN tags /\ tags["highway"] \in NonMotorizedHighways)

\* The pipeline is right after the driving-lane step.
AfterDrivingLanes == pc \in {"construction", "bus"}

\* The number of driving lanes of a side right after the driving-lane step.
DrivingCount(side) ==
    Cardinality({i \in 1..Len(side) : side[i].lane_type # "SharedLeftTurn"})

\* The value of a lane-count tag as a number, -1 if absent or not a number.
CountTag(k) ==
    IF k \in DOMAIN tags /\ \E n \in 0..9 : NumStr(n) = tags[k]
    THEN CHOOSE n \in 0..9 : NumStr(n) = tags[k]
    ELSE -1

Max(a, b) == IF a >= b THEN a ELSE b

RoadIsOneway ==
    \/ "oneway" \in DOMAIN tags /\ tags["oneway"] \in {"yes", "reversible"}
    \/ "junction" \in DOMAIN tags /\ tags["junction"] = "roundabout"

ClaimedBothWays == IF CountTag("lanes:both_ways") >= 0 THEN CountTag("lanes:both_ways") ELSE 0

ClaimedForward ==
    IF CountTag("lanes:forward") >= 0 THEN CountTag("lanes:forward")
    ELSE IF CountTag("lanes") >= 0
    THEN (IF RoadIsOneway THEN CountTag("lanes") ELSE (CountTag("lanes") + 1) \div 2)
         - ClaimedBothWays
    ELSE 1

ClaimedBackward ==
    IF CountTag("lanes:backward") >= 0 THEN CountTag("lanes:backward")
    ELSE IF CountTag("lanes") >= 0
    THEN Max(CountTag("lanes") - ClaimedForward, IF RoadIsOneway THEN 0 ELSE 1)
         - ClaimedBothWays
    ELSE IF RoadIsOneway THEN 0 ELSE 1

\* The driving-lane step aborted.
CountPanic ==
    /\ result.kind = "panic"
    /\ result.error.description \in
          {"attempt to subtract with overflow", "capacity overflow"}

\* C5: the driving-lane counts are both_ways = parse(lanes:both_ways) or 0,
\* fwd = parse(lanes:forward), else (oneway ? lanes : ceil(lanes/2)) - both_ways
\* if lanes is given, else 1; back = parse(lanes:backward), else
\* max(lanes - fwd, oneway ? 0 : 1) - both_ways if lanes is given, else
\* (oneway ? 0 : 1).  The step always yields these counts.
C5_Counts ==
    /\ ~CountPanic
    /\ AfterDrivingLanes =>
          /\ DrivingCount(forward_side) = ClaimedForward
          /\ DrivingCount(backward_side) = ClaimedBackward

\* The counts of C5's formula whenever the step yields counts (kept to show
\* that C5 fails only where a subtraction overflows).
CountsWhenReturned ==
    AfterDrivingLanes =>
        /\ DrivingCount(forward_side) = ClaimedForward
        /\ DrivingCount(backward_side) = ClaimedBackward

\* A count of the formula is negative, or lanes=1 on a road that is not oneway.
NegativeOrAmbiguous ==
    \/ ClaimedForward < 0
    \/ ClaimedBackward < 0
    \/ /\ CountTag("lanes") = 1 /\ ~RoadIsOneway
       /\ CountTag("lanes:forward") < 0 /\ CountTag("lanes:backward") < 0

\* C6: a count that would be negative or is ambiguous gets a warning and is
\* clamped to 0 or 1; the computation never underflows, wraps or aborts.
C6_ClampWithWarning ==
    /\ ~CountPanic
    /\ (Motorized /\ NegativeOrAmbiguous /\ AfterDrivingLanes) =>
          /\ \E i \in 1..Len(warnings) : warnings[i].description # "access"
          /\ DrivingCount(forward_side) >= 0
          /\ DrivingCount(backward_side) >= 0

BusCondition ==
    \/ /\ "access" \in DOMAIN tags /\ tags["access"] = "no"
       /\ \/ "bus" \in DOMAIN tags /\ tags["bus"] = "yes"
          \/ "psv" \in DOMAIN tags /\ tags["psv"] = "yes"
    \/ /\ "motor_vehicle:conditional" \in DOMAIN tags
       /\ tags["motor_vehicle:conditional"] \in NoConditionals
       /\ "bus" \in DOMAIN tags /\ tags["bus"] = "yes"

AccessNo == "access" \in DOMAIN tags /\ tags["access"] = "no"

HighwayConstruction == "highway" \in DOMAIN tags /\ tags["highway"] = "construction"

\* C7 as stated: Construction exactly when access=no and highway=construction
\* both hold, Bus on the bus condition, Driving in every other case.
C7_Original ==
    driving_lane # "none" =>
        /\ (driving_lane = "Construction") = (AccessNo /\ HighwayConstruction /\ ~BusCondition)
        /\ (driving_lane = "Bus") = BusCondition
        /\ (driving_lane = "Driving") =
              (~BusCondition /\ ~(AccessNo /\ HighwayConstruction))

\* C7 (amended): Bus when access=no and (bus=yes or psv=yes), or when
\* motor_vehicle:conditional starts with "no" and bus=yes; otherwise
\* Construction when access=no or highway=construction (either one alone);
\* Driving in every other case.
C7_LaneType ==
    driving_lane # "none" =>
        /\ (driving_lane = "Bus") = BusCondition
        /\ (driving_lane = "Construction") =
              (~BusCondition /\ (AccessNo \/ HighwayConstruction))
        /\ (driving_lane = "Driving") =
              (~BusCondition /\ ~AccessNo /\ ~HighwayConstruction)

\* C7 witness: access=no alone has made the driving lanes Construction.
C7_Witness ==
    /\ AccessNo /\ ~HighwayConstruction /\ ~BusCondition
    /\ driving_lane = "Construction"
    /\ forward_side # <<>>

LaneTypes(s) == {s[i].lane_type : i \in 1..Len(s)}

\* C8: with Construction driving lanes the bus, bicycle, parking and foot and
\* shoulder passes are skipped: the call succeeds with the assembly of the
\* initial driving lanes and the centre turn lane only, whatever mode tags
\* are present, and no pass can fail.
C8_ConstructionSkipsPasses ==
    driving_lane = "Construction" =>
        /\ pc \in {"construction", "done"}
        /\ LaneTypes(forward_side) \subseteq {"Construction", "SharedLeftTurn"}
        /\ LaneTypes(backward_side) \subseteq {"Construction"}
        /\ DrivingCount(forward_side) = ClaimedForward
        /\ DrivingCount(backward_side) = ClaimedBackward
        /\ pc = "done" =>
              /\ result.kind = "ok"
              /\ LaneTypes(result.lanes) \subseteq {"Construction", "SharedLeftTurn"}
              /\ Len(result.lanes) = Len(forward_side) + Len(backward_side)
              /\ \A i \in 1..Len(backward_side) :
                     result.lanes[i].direction = "Backward"
              /\ \A i \in 1..Len(forward_side) :
                     result.lanes[Len(backward_side) + i] = forward_side[i]

\* C8 witness: a Construction road carrying busway, cycleway, parking and
\* sidewalk tags has returned its driving lanes and centre turn lane.
C8_Witness ==
    /\ driving_lane = "Construction"
    /\ {"busway", "cycleway", "parking:lane:both", "sidewalk", "centre_turn_lane"}
          \subseteq DOMAIN tags
    /\ Succeeded
    /\ Len(result.lanes) = 3

\* The pipeline is between the centre-turn-lane step and assembly.
BetweenPasses == pc \in {"construction", "bus", "bicycle", "parking", "walking", "assemble"}

\* The bicycle pass has run.
AfterBicycle == pc \in {"parking", "walking", "assemble"}

SharedLeftTurns(side) == {i \in 1..Len(side) : side[i].lane_type = "SharedLeftTurn"}

\* C9 as stated: between the centre-turn-lane step and assembly there is at
\* most one SharedLeftTurn lane, never in the backward sequence, and it is the
\* first element of the forward sequence.
C9_Original ==
    BetweenPasses =>
        /\ Cardinality(SharedLeftTurns(forward_side)) <= 1
        /\ SharedLeftTurns(backward_side) = {}
        /\ SharedLeftTurns(forward_side) \subseteq {1}

\* C9 (amended): between the centre-turn-lane step and assembly there is at
\* most one SharedLeftTurn lane, never in the backward sequence.  Up to and
\* including the bus pass it is the first element of the forward sequence.
\* The bicycle pass of a oneway road puts the cycleway of the backward side,
\* and a separation buffer of a cycleway, in front of it: from then on the
\* lanes before it are Biking and buffer lanes only, and on a road that is
\* not oneway it is still the first element.
C9_SharedLeftTurn ==
    BetweenPasses =>
        /\ Cardinality(SharedLeftTurns(forward_side)) <= 1
        /\ SharedLeftTurns(backward_side) = {}
        /\ ~AfterBicycle => SharedLeftTurns(forward_side) \subseteq {1}
        /\ AfterBicycle =>
              \A i \in SharedLeftTurns(forward_side) :
                  /\ \A j \in 1..(i - 1) :
                         forward_side[j].lane_type \in {"Biking"} \cup BufferLaneTypes
                  /\ i > 1 => oneway

\* C9 witness: after the bicycle pass of a oneway road the SharedLeftTurn
\* lane is behind a Biking lane.
C9_Witness ==
    /\ AfterBicycle
    /\ oneway
    /\ Len(forward_side) >= 2
    /\ forward_side[1].lane_type = "Biking"
    /\ \E i \in SharedLeftTurns(forward_side) : i > 1

FamilyPresent(prefixes) ==
    \E k \in DOMAIN tags : \E p \in prefixes :
        k = p \/ \E x \in KeySuffixes : k = Key(p, x)

BusFamilies ==
    {f \in {{"busway"}, {"lanes:bus", "lanes:psv"}, {"bus:lanes", "psv:lanes"}} :
        FamilyPresent(f)}

\* The bus pass has ended.
AfterBus ==
    /\ Motorized
    /\ driving_lane \notin {"none", "Construction"}
    /\ pc # "bus"

\* C10: with keys of two or three of the bus scheme families present the bus
\* pass fails with Unsupported("more than one bus lanes scheme used") and
\* applies no scheme; with no family present it changes nothing.
C10_ExclusiveSchemes ==
    AfterBus =>
        /\ Cardinality(BusFamilies) >= 2 =>
              /\ pc = "done"
              /\ result.kind = "err"
              /\ result.error =
                     Error("Unsupported", "more than one bus lanes scheme used")
              /\ driving_lane # "Bus" =>
                     "Bus" \notin LaneTypes(forward_side) \cup LaneTypes(backward_side)
        /\ (Cardinality(BusFamilies) = 0 /\ pc = "bicycle") =>
              /\ forward_side = initial_forward(tags, driving_lane, ClaimedForward)
              /\ backward_side = initial_backward(driving_lane, ClaimedBackward)
              /\ warnings = unsupported_warnings(tags, <<>>)

\* The keys of the three bus scheme families present in the tags.
BusTags ==
    {k \in DOMAIN tags :
        \E p \in {"busway", "lanes:bus", "lanes:psv", "bus:lanes", "psv:lanes"} :
            k = p \/ \E x \in KeySuffixes : k = Key(p, x)}

\* The bus pass ended the call with its error.
BusFailed ==
    /\ driving_lane # "none"
    /\ pc = "done"
    /\ result.kind = "err"
    /\ result.error.kind \in {"Unsupported", "Ambiguous"}

\* The sides as the driving-lane and centre-turn-lane steps leave them.
InitialForward == initial_forward(tags, driving_lane, ClaimedForward)

InitialBackward == initial_backward(driving_lane, ClaimedBackward)

\* The side with its outermost lane made a bus lane.
WithLastBus(side) ==
    [i \in 1..Len(side) |->
        IF i = Len(side) THEN [side[i] EXCEPT !.lane_type = "Bus"] ELSE side[i]]

\* C11: with busway=lane as the only bus tag, on a road that is not oneway
\* the outermost forward lane and the outermost backward lane become Bus; on
\* a oneway road (oneway=yes or junction=roundabout) only the outermost
\* forward lane becomes Bus and the pass succeeds; every other lane is kept.
C11_BuswayLane ==
    (AfterBus /\ BusTags = {"busway"} /\ tags["busway"] = "lane"
        /\ ClaimedForward > 0) =>
        IF oneway
        THEN /\ ~BusFailed
             /\ pc = "bicycle" =>
                   /\ forward_side = WithLastBus(InitialForward)
                   /\ backward_side = InitialBackward
        ELSE pc = "bicycle" =>
                   /\ forward_side = WithLastBus(InitialForward)
                   /\ backward_side = WithLastBus(InitialBackward)

\* C12: busway:both=lane together with oneway=yes makes the bus pass fail
\* with an error of kind Ambiguous, whatever the lanes of the road are.
C12_BothOnOneway ==
    (AfterBus /\ BusTags = {"busway:both"} /\ tags["busway:both"] = "lane"
        /\ "oneway" \in DOMAIN tags /\ tags["oneway"] = "yes") =>
        /\ pc = "done"
        /\ result.kind = "err"
        /\ result.error.kind = "Ambiguous"

\* Only keys of the bus:lanes / psv:lanes family are present.
OnlyBusLanesScheme == BusFamilies = {{"bus:lanes", "psv:lanes"}}

\* The forward spec: bus:lanes:forward, else psv:lanes:forward, else on a
\* oneway road bus:lanes, else psv:lanes; "" if there is none.
ClaimedForwardSpec ==
    IF "bus:lanes:forward" \in DOMAIN tags THEN tags["bus:lanes:forward"]
    ELSE IF "psv:lanes:forward" \in DOMAIN tags THEN tags["psv:lanes:forward"]
    ELSE IF RoadIsOneway /\ "bus:lanes" \in DOMAIN tags THEN tags["bus:lanes"]
    ELSE IF RoadIsOneway /\ "psv:lanes" \in DOMAIN tags THEN tags["psv:lanes"]
    ELSE ""

ClaimedBackwardSpec ==
    IF "bus:lanes:backward" \in DOMAIN tags THEN tags["bus:lanes:backward"]
    ELSE IF "psv:lanes:backward" \in DOMAIN tags THEN tags["psv:lanes:backward"]
    ELSE ""

\* 1 if the centre-most forward lane is the SharedLeftTurn lane, else 0.
ClaimedOffset ==
    IF InitialForward # <<>> /\ InitialForward[1].lane_type = "SharedLeftTurn"
    THEN 1 ELSE 0

\* The side after the spec: with k parts and k = Len(side) - o, lane i + o is
\* Bus exactly when part i is "designated"; otherwise the side is unchanged.
WithBusSpec(side, spec, o) ==
    IF spec = "" THEN side
    ELSE LET parts == SplitPipe(spec)
         IN  IF Len(parts) # Len(side) - o THEN side
             ELSE [i \in 1..Len(side) |->
                     IF i > o /\ parts[i - o] = "designated"
                     THEN [side[i] EXCEPT !.lane_type = "Bus"]
                     ELSE side[i]]

\* The sides and warnings after a bus pass that applied the specs as claimed.
BusLanesApplied ==
    /\ forward_side = WithBusSpec(InitialForward, ClaimedForwardSpec, ClaimedOffset)
    /\ backward_side = WithBusSpec(InitialBackward, ClaimedBackwardSpec, 0)
    /\ warnings = unsupported_warnings(tags, <<>>)

\* C13: in the bus:lanes / psv:lanes scheme the forward spec (k parts, offset
\* o for a centre SharedLeftTurn lane) makes forward lane i + o Bus exactly
\* when part i is "designated" if k = len(forward) - o, and changes nothing,
\* without warning or error, if k differs; the backward spec likewise with
\* no offset; the unsided key is the forward spec only on oneway roads, and
\* bus:* goes before psv:*.
C13_BusLanes ==
    (AfterBus /\ OnlyBusLanesScheme) =>
        /\ result.kind # "panic"
        /\ ~BusFailed
        /\ pc = "bicycle" => BusLanesApplied

\* The specs are applied as C13 says whenever the pass returns (C13 fails
\* only where the pass aborts).
BusLanesWhenReturned ==
    (AfterBus /\ OnlyBusLanesScheme /\ pc = "bicycle") => BusLanesApplied

\* The bicycle pass ended the call with its error.
BicycleFailed ==
    /\ driving_lane # "none"
    /\ pc = "done"
    /\ result.kind = "err"
    /\ result.error.kind = "LaneSpecError"

\* The bicycle pass has ended on a right-hand-traffic road without bus tags,
\* so that it started from the initial sides.
BicycleEnded ==
    /\ Motorized
    /\ driving_lane \notin {"none", "Construction"}
    /\ BusTags = {}
    /\ cfg.driving_side = "Right"
    /\ pc \notin {"bus", "bicycle"}

IsNotBuffer(lane) == lane.lane_type \notin BufferLaneTypes

SidedCyclewayKeys == {"cycleway:left", "cycleway:right", "cycleway:both"}

UnsidedCycleway ==
    "cycleway" \in DOMAIN tags /\ tags["cycleway"] \in {"lane", "track"}

\* C14: cycleway=lane|track together with any sided cycleway key, whatever
\* its value, makes the bicycle pass fail and no lanes are returned; without
\* a sided key the pass pushes Bicycle forward onto the forward side and,
\* unless the road is oneway, Bicycle backward onto the backward side.
C14_UnsidedCycleway ==
    (BicycleEnded /\ UnsidedCycleway) =>
        IF SidedCyclewayKeys \cap DOMAIN tags # {}
        THEN /\ BicycleFailed
             /\ result.error.description =
                    "cycleway=* not supported with any cycleway:* values"
             /\ result.lanes = <<>>
        ELSE /\ ~BicycleFailed
             /\ pc = "parking" =>
                   /\ SelectSeq(forward_side, IsNotBuffer) =
                          Append(InitialForward, Forward("Biking"))
                   /\ SelectSeq(backward_side, IsNotBuffer) =
                          IF oneway THEN InitialBackward
                          ELSE Append(InitialBackward, Backward("Biking"))

HasBiking(lanes) == \E i \in 1..Len(lanes) : lanes[i].lane_type = "Biking"

\* C15 as stated: under left-hand traffic no successful result contains a
\* Bicycle lane.
C15_Original ==
    (cfg.driving_side = "Left" /\ Succeeded) => ~HasBiking(result.lanes)

\* C15 (amended): under left-hand traffic the motorized path never returns a
\* successful result with a Bicycle lane: no state after the bicycle pass has
\* a Bicycle lane on a side, and a call whose bicycle pass added one has
\* failed, with "LHT with cycleways not supported" unless the pass failed
\* earlier on cycleway:BACKWARD=opposite_lane.  Only the non-motorized fast
\* path returns Bicycle lanes under left-hand traffic.
C15_LeftHandTraffic ==
    cfg.driving_side = "Left" =>
        /\ (Succeeded /\ HasBiking(result.lanes)) =>
              /\ driving_lane = "none"
              /\ tags["highway"] \in NonMotorizedHighways
        /\ (driving_lane # "none" /\ pc \notin {"bus", "bicycle"}
            /\ (HasBiking(forward_side) \/ HasBiking(backward_side))) =>
              /\ BicycleFailed
              /\ result.lanes = <<>>
              /\ result.error.description \in
                    {"LHT with cycleways not supported",
                     "cycleway:BACKWARD=opposite_lane unsupported"}
        /\ (BicycleFailed
            /\ result.error.description = "LHT with cycleways not supported") =>
              HasBiking(forward_side) \/ HasBiking(backward_side)

\* C15 witness: a left-hand-traffic call has failed on the Bicycle lane its
\* cycleway tags added.
C15_Witness ==
    /\ cfg.driving_side = "Left"
    /\ BicycleFailed
    /\ result.error.description = "LHT with cycleways not supported"
    /\ HasBiking(forward_side)

HasWarning(ws, description) ==
    \E i \in 1..Len(ws) : ws[i].description = description

DeprecatedUnsided ==
    "cycleway" \in DOMAIN tags /\ tags["cycleway"] = "opposite_lane"

DeprecatedSided ==
    \E k \in SidedCyclewayKeys :
        k \in DOMAIN tags /\ tags[k] \in {"opposite_lane", "opposite_track"}

\* C16: a successful result of the motorized path for tags with a deprecated
\* cycleway form (cycleway=opposite_lane, or cycleway:left/right/both with
\* opposite_lane or opposite_track) carries the deprecation warning of that
\* form, whatever other cycleway tags are present.
C16_DeprecatedWarned ==
    (Succeeded /\ driving_lane \notin {"none", "Construction"}) =>
        /\ DeprecatedUnsided =>
              HasWarning(result.warnings, "cycleway=opposite_lane deprecated")
        /\ DeprecatedSided =>
              HasWarning(result.warnings, "cycleway:FORWARD=opposite_lane deprecated")

\* The positions, in the left-to-right list of a right-hand-traffic road, of
\* the lanes of the forward side and of the backward side.
ForwardPositions == (Len(backward_side) + 1)..(Len(backward_side) + Len(forward_side))

BackwardPositions == 1..Len(backward_side)

\* Some Bicycle lane at one of the positions has the buffer lane next to it,
\* on its left (delta = -1) or on its right (delta = 1).
BufferNextToBiking(lanes, positions, buffer_type, delta) ==
    \E i \in positions :
        /\ lanes[i].lane_type = "Biking"
        /\ i + delta \in 1..Len(lanes)
        /\ lanes[i + delta].lane_type = Buffer(buffer_type)

\* The buffer type the separation key maps to, as a set.
SeparationOf(key) ==
    IF key \in DOMAIN tags
    THEN {b \in BufferTypes : <<b>> = osm_separation_type(tags[key])}
    ELSE {}

\* C17: for each separation key that maps to a buffer type, if the side of
\* its cycleway has a Bicycle lane, the assembled list has a Buffer lane of
\* that type next to that Bicycle lane: on its left for separation:left, on
\* its right for separation:right; without a mapped key there is no Buffer.
C17_SeparationBuffers ==
    (Succeeded /\ driving_lane \notin {"none", "Construction"}
        /\ cfg.driving_side = "Right") =>
        /\ \A b \in SeparationOf("cycleway:right:separation:left") :
              HasBiking(forward_side) =>
                  BufferNextToBiking(result.lanes, ForwardPositions, b, -1)
        /\ \A b \in SeparationOf("cycleway:left:separation:left") :
              HasBiking(backward_side) =>
                  BufferNextToBiking(result.lanes, BackwardPositions, b, -1)
        /\ \A b \in SeparationOf("cycleway:left:separation:right") :
              HasBiking(backward_side) =>
                  BufferNextToBiking(result.lanes, BackwardPositions, b, 1)
        /\ (SeparationOf("cycleway:right:separation:left")
            \cup SeparationOf("cycleway:left:separation:left")
            \cup SeparationOf("cycleway:left:separation:right") = {}) =>
              \A i \in 1..Len(result.lanes) :
                  result.lanes[i].lane_type \notin BufferLaneTypes

ParkingValues == {"parallel", "diagonal", "perpendicular"}

ParkingTagged(keys) ==
    \E k \in keys : k \in DOMAIN tags /\ tags[k] \in ParkingValues

ParkingLanes(side) == {i \in 1..Len(side) : side[i].lane_type = "Parking"}

\* The side has exactly one Parking lane of the direction if wanted, pushed
\* at its outer end by the parking pass, and no Parking lane otherwise.
ParkingPushed(side, wanted, direction) ==
    IF wanted
    THEN /\ Cardinality(ParkingLanes(side)) = 1
         /\ pc = "walking" => side[Len(side)] = LaneSpec("Parking", direction)
    ELSE ParkingLanes(side) = {}

\* C18: on every motorized road whose driving lanes are not Construction,
\* Bus roads included, the parking pass pushes exactly one Parking forward
\* lane iff parking:lane:right or parking:lane:both is parallel, diagonal or
\* perpendicular, and exactly one Parking backward lane iff parking:lane:left
\* or parking:lane:both is; any other value adds none.
C18_Parking ==
    (driving_lane \notin {"none", "Construction"}
        /\ pc \in {"walking", "assemble"}) =>
        /\ ParkingPushed(forward_side,
               ParkingTagged({"parking:lane:right", "parking:lane:both"}), "Forward")
        /\ ParkingPushed(backward_side,
               ParkingTagged({"parking:lane:left", "parking:lane:both"}), "Backward")

\* The same on the roads whose driving lanes are Driving (C18 fails on Bus
\* roads only).
ParkingOnDrivingRoads ==
    (driving_lane = "Driving" /\ pc \in {"walking", "assemble"}) =>
        /\ ParkingPushed(forward_side,
               ParkingTagged({"parking:lane:right", "parking:lane:both"}), "Forward")
        /\ ParkingPushed(backward_side,
               ParkingTagged({"parking:lane:left", "parking:lane:both"}), "Backward")

\* No tag puts a lane on the backward side of a oneway road.
NoLeftSideTags ==
    DOMAIN tags \cap
        {"sidewalk", "parking:lane:left", "parking:lane:both", "cycleway",
         "cycleway:left", "cycleway:right", "cycleway:both"} = {}

\* C19: on a road the pipeline takes as oneway (oneway=yes or
\* junction=roundabout) the foot and shoulder pass never pushes a Shoulder
\* onto the backward side, so a oneway road without backward lanes and
\* without left-side tags ends with an empty backward side.
C19_NoBackwardShoulder ==
    (oneway /\ driving_lane # "none") =>
        /\ \A i \in 1..Len(backward_side) :
               backward_side[i].lane_type # "Shoulder"
        /\ (pc = "assemble" /\ InitialBackward = <<>> /\ NoLeftSideTags
            /\ BusTags = {}) => backward_side = <<>>

\* The same for the roads tagged oneway=yes (C19 fails on roundabouts only).
NoBackwardShoulderOnTaggedOneway ==
    (driving_lane # "none" /\ "oneway" \in DOMAIN tags /\ tags["oneway"] = "yes") =>
        \A i \in 1..Len(backward_side) : backward_side[i].lane_type # "Shoulder"

\* The left-to-right list of the two sides, position by position: under
\* right-hand traffic the backward side reversed, then the forward side in
\* order; under left-hand traffic the forward side reversed, then the
\* backward side in order.
LeftToRight(f, b, driving_side) ==
    IF driving_side = "Right"
    THEN [i \in 1..(Len(b) + Len(f)) |->
             IF i <= Len(b) THEN b[Len(b) + 1 - i] ELSE f[i - Len(b)]]
    ELSE [i \in 1..(Len(f) + Len(b)) |->
             IF i <= Len(f) THEN f[Len(f) + 1 - i] ELSE b[i - Len(f)]]

\* The non-motorized way is a sidewalk only.
SidewalkOnly ==
    \/ tags["highway"] = "steps"
    \/ "bicycle" \in DOMAIN tags /\ tags["bicycle"] = "no"
    \/ /\ tags["highway"] = "footway"
       /\ ~("bicycle" \in DOMAIN tags /\ tags["bicycle"] \in {"designated", "yes"})

WalkingShoulder ==
    IF "foot" \in DOMAIN tags /\ tags["foot"] = "no"
    THEN <<>> ELSE <<LaneSpec("Shoulder", "Both")>>

\* The sides of a non-motorized way.
NonMotorizedForward ==
    IF SidewalkOnly THEN <<LaneSpec("Sidewalk", "Both")>>
    ELSE <<LaneSpec("Biking", "Forward")>> \o WalkingShoulder

NonMotorizedBackward ==
    IF SidewalkOnly \/ ("oneway" \in DOMAIN tags /\ tags["oneway"] = "yes")
    THEN <<>>
    ELSE <<LaneSpec("Biking", "Backward")>> \o WalkingShoulder

\* C20: every list of lanes returned (motorized, Construction and
\* non-motorized path) is the assembly of the two sides: for Right the
\* backward side reversed followed by the forward side in order, for Left
\* the forward side reversed followed by the backward side in order.
C20_AssembleLtr ==
    Succeeded =>
        IF driving_lane # "none"
        THEN result.lanes =
                 LeftToRight(forward_side, backward_side, cfg.driving_side)
        ELSE result.lanes =
                 LeftToRight(NonMotorizedForward, NonMotorizedBackward,
                             cfg.driving_side)

\* C20 witness: a left-hand-traffic road with several forward lanes and a
\* backward lane has been assembled, outermost forward lane first.
C20_Witness ==
    /\ Succeeded
    /\ cfg.driving_side = "Left"
    /\ Len(forward_side) >= 2
    /\ backward_side # <<>>
    /\ result.lanes[1] = forward_side[Len(forward_side)]
    /\ result.lanes[1] # forward_side[1]
    /\ result.lanes[Len(result.lanes)] = backward_side[Len(backward_side)]

\* The way's highway value is one of the non-motorized ones.
NonMotorizedWay ==
    "highway" \in DOMAIN tags /\ tags["highway"] \in NonMotorizedHighways

\* The number of warnings of a non-motorized way: one for steps, else none.
NonMotorizedWarnings == IF tags["highway"] = "steps" THEN 1 ELSE 0

\* C21: for highway in {cycleway, footway, path, pedestrian, steps, track}
\* the non-motorized step ends the call, no motorized step having run:
\* steps gives one sidewalk lane and one warning; otherwise bicycle=no, or
\* footway without bicycle in {designated, yes}, gives one sidewalk lane and
\* no warning; otherwise forward = [Biking forward], backward = [] if
\* oneway=yes else [Biking backward], with Shoulder Both appended to each
\* non-empty side iff foot is not 'no'.  For any other highway value the step
\* yields nothing and the motorized pipeline runs.
C21_NonMotorized ==
    [][pc = "non_motorized" =>
          IF NonMotorizedWay
          THEN /\ pc' = "done"
               /\ result'.kind = "ok"
               /\ result'.lanes =
                      LeftToRight(NonMotorizedForward, NonMotorizedBackward,
                                  cfg.driving_side)
               /\ SidewalkOnly => result'.lanes = <<LaneSpec("Sidewalk", "Both")>>
               /\ Len(result'.warnings) = NonMotorizedWarnings
               /\ driving_lane' = "none"
               /\ forward_side' = <<>> /\ backward_side' = <<>>
          ELSE /\ pc' = "driving"
               /\ result' = result]_vars

\* C21 witness: a two-way path open to bicycles and to walkers has returned
\* its four lanes, no motorized step having run.
C21_Witness ==
    /\ Succeeded
    /\ NonMotorizedWay /\ tags["highway"] = "path"
    /\ "foot" \notin DOMAIN tags /\ "oneway" \notin DOMAIN tags
    /\ driving_lane = "none"
    /\ Len(result.lanes) = 4
    /\ result.lanes[1].lane_type = "Shoulder"
    /\ result.lanes[2].lane_type = "Biking"
    /\ result.warnings = <<>>

\* The second call, on the tags made of the first call's lanes, has ended.
RoundTripEnded == run = 2 /\ pc = "done"

\* lanes_to_tags aborted.
LanesToTagsPanic ==
    /\ run = 2
    /\ result.kind = "panic"
    /\ result.error.description = "called Option::unwrap() on a None value"

\* C22: for input tags on which the inference succeeds without warnings,
\* converting the lanes back with lanes_to_tags and running the inference
\* again (same locale and config) yields the same lane list.
C22_Idempotence ==
    RoundTripEnded => (result.kind = "ok" /\ result.lanes = first.lanes)

\* The same when lanes_to_tags returned tags (kept to show that C22 fails
\* on non-empty lane lists too).
IdempotenceWhenConverted ==
    (RoundTripEnded /\ ~LanesToTagsPanic) =>
        (result.kind = "ok" /\ result.lanes = first.lanes)

\* C25: lanes_to_tags returns Ok for every lane list it is given, the empty
\* list and the lists with no Driving lane included: no assertion fires and
\* no first()/last() unwrap fails.
C25_LanesToTagsOk == ~LanesToTagsPanic

\* lanes_to_tags returns tags for every non-empty list (kept to show that
\* C25 fails on the empty list only).
LanesToTagsOkWhenNonEmpty ==
    run = 2 => (LanesToTagsPanic <=> first.lanes = <<>>)

\* The rank of an Infer value: None < Default < Calculated < Direct.
Rank(x) ==
    IF x.variant = "None" THEN 0
    ELSE IF x.variant = "Default" THEN 1
    ELSE IF x.variant = "Calculated" THEN 2
    ELSE 3

\* C23: provenance never goes down.  After the bus pass every lane's
\* designated value has a rank at least as high as before the pass, and a
\* lane the pass wrote to is left Direct(Bus); Infer::map returns the
\* variant it was given, and Infer::some returns a value exactly when the
\* rank is not None.
C23_Provenance ==
    \A i \in 1..Len(provenance) :
        /\ Rank(provenance[i].after) >= Rank(provenance[i].before)
        /\ provenance[i].after # provenance[i].before =>
               provenance[i].after = [variant |-> "Direct", value |-> "Bus"]
        /\ Rank(provenance[i].mapped) = Rank(provenance[i].after)
        /\ (provenance[i].some # <<>>) = (Rank(provenance[i].after) # 0)

\* C23 witness: the bus pass has run on lanes built Direct and on lanes built
\* with no value: it wrote Direct(Bus) to one lane and left another alone.
C23_Witness ==
    /\ built_as \in {"Direct", "None"}
    /\ \E i \in 1..Len(provenance) :
          /\ Rank(provenance[i].before) \in {0, 3}
          /\ provenance[i].after # provenance[i].before
          /\ provenance[i].after.variant = "Direct"
    /\ \E i \in 1..Len(provenance) :
          /\ provenance[i].after = provenance[i].before
          /\ provenance[i].some = (IF built_as = "None" THEN <<>> ELSE <<"Motor">>)

\* The bus pass aborted on an index outside a lane sequence.
BusLanesPanic ==
    /\ result.kind = "panic"
    /\ result.error.description = "index out of bounds"

\* C24: the bus:lanes pass never indexes outside a lane sequence: for every
\* tag set and every pair of sides reaching it, an empty forward side with a
\* non-empty forward bus spec included, it returns normally instead of
\* aborting.
C24_BusLanesInBounds == ~BusLanesPanic

\* The pass aborts exactly on an empty forward side with a forward spec in
\* force (kept to show where C24 fails and that nothing else aborts).
BusLanesPanicOnlyOnEmptyForward ==
    BusLanesPanic =>
        /\ forward_side = <<>>
        /\ \/ "bus:lanes:forward" \in DOMAIN tags
           \/ "psv:lanes:forward" \in DOMAIN tags
           \/ oneway /\ ("bus:lanes" \in DOMAIN tags \/ "psv:lanes" \in DOMAIN tags)

\* How many times a lane occurs in a sequence.
Occurrences(lanes, lane) == Cardinality({i \in 1..Len(lanes) : lanes[i] = lane})

\* The sequence has every lane of f and of b as many times as f and b have it.
PermutationOf(lanes, f, b) ==
    /\ Len(lanes) = Len(f) + Len(b)
    /\ \A i \in 1..Len(lanes) :
          Occurrences(lanes, lanes[i]) =
              Occurrences(f, lanes[i]) + Occurrences(b, lanes[i])

\* The sequence is the other one read from the right.
MirrorOf(left, right) ==
    /\ Len(left) = Len(right)
    /\ \A i \in 1..Len(left) : left[i] = right[Len(right) + 1 - i]

\* C26: assembly is a mirror-symmetric permutation: for the forward and
\* backward sequences f and b, assemble_ltr(f, b, Left) is the reverse of
\* assemble_ltr(f, b, Right), and each has length |f| + |b| and holds every
\* lane of f and b exactly once (nothing dropped, duplicated or altered).
C26_AssembleMirror ==
    /\ MirrorOf(assemble_ltr(forward_side, backward_side, "Left"),
                assemble_ltr(forward_side, backward_side, "Right"))
    /\ PermutationOf(assemble_ltr(forward_side, backward_side, "Left"),
                     forward_side, backward_side)
    /\ PermutationOf(assemble_ltr(forward_side, backward_side, "Right"),
                     forward_side, backward_side)

\* C26 witness: two sides of several lanes each, with distinct lanes on the
\* forward side, whose two assemblies differ.
C26_Witness ==
    /\ Len(forward_side) >= 3 /\ Len(backward_side) >= 2
    /\ forward_side[1] # forward_side[Len(forward_side)]
    /\ assemble_ltr(forward_side, backward_side, "Left")
          # assemble_ltr(forward_side, backward_side, "Right")
    /\ assemble_ltr(forward_side, backward_side, "Left")[1]
          = forward_side[Len(forward_side)]

\* The count lanes:both_ways is subtracted from, forward and backward.
ForwardBase ==
    IF RoadIsOneway THEN CountTag("lanes") ELSE (CountTag("lanes") + 1) \div 2

BackwardBase ==
    Max(CountTag("lanes") - (ForwardBase - ClaimedBothWays),
        IF RoadIsOneway THEN 0 ELSE 1)

\* lanes=n parses, no lanes:forward and no lanes:backward, both_ways within
\* the counts it is subtracted from, and the road is oneway or n >= 2.
ConservationCase ==
    /\ CountTag("lanes") >= 0
    /\ "lanes:forward" \notin DOMAIN tags
    /\ "lanes:backward" \notin DOMAIN tags
    /\ ClaimedBothWays <= ForwardBase
    /\ ClaimedBothWays <= BackwardBase
    /\ RoadIsOneway \/ CountTag("lanes") >= 2

\* C27: lane-count conservation.  In that case the counts that
\* driving_lane_directions returns satisfy fwd + back + both_ways = n, and on
\* a oneway road back is 0.
C27_Conservation ==
    (AfterDrivingLanes /\ ConservationCase) =>
        /\ DrivingCount(forward_side) + DrivingCount(backward_side)
              + ClaimedBothWays = CountTag("lanes")
        /\ RoadIsOneway => DrivingCount(backward_side) = 0

\* C27 witness: a two-way road of three lanes, one of them for both ways,
\* has got one driving lane each way.
C27_Witness ==
    /\ AfterDrivingLanes /\ ConservationCase
    /\ ~RoadIsOneway
    /\ CountTag("lanes") = 3 /\ ClaimedBothWays = 1
    /\ DrivingCount(forward_side) = 1
    /\ DrivingCount(backward_side) = 1

\* The number of draw_point calls draw_arrow owes a direction.
PointsOwed(direction) == IF direction = "Both" THEN 2 ELSE 1

RECURSIVE TotalOwed(_)
TotalOwed(arrows) ==
    IF arrows = <<>> THEN 0
    ELSE PointsOwed(arrows[1]) + TotalOwed(Tail(arrows))

\* C28: the unreachable!() arm of draw_point is never reached through
\* draw_arrow: for each direction draw_arrow calls draw_point with Forward or
\* Backward only, once for Forward or Backward and twice for Both, so
\* rendering the Travel lanes of a road cannot abort.
C28_DrawArrow ==
    /\ drawn.kind # "panic"
    /\ \A i \in 1..Len(drawn.points) : drawn.points[i] \in {"Forward", "Backward"}
    /\ Len(drawn.points) = TotalOwed(drawn.arrows)

\* C28 witness: a road with a Travel lane for both ways and Travel lanes
\* each way has been drawn.
C28_Witness ==
    /\ drawn.kind = "ok"
    /\ \E i \in 1..Len(drawn.arrows) : drawn.arrows[i] = "Both"
    /\ \E i \in 1..Len(drawn.arrows) : drawn.arrows[i] = "Forward"
    /\ \E i \in 1..Len(drawn.arrows) : drawn.arrows[i] = "Backward"
    /\ Len(drawn.points) > Len(drawn.arrows)

====
